---- MODULE Spec2Model ----
(***************************************************************************)
(* Term-based bully election and full-copy replication over a fixed set    *)
(* of MongoDB stores, as implemented by the coordinating process of        *)
(* src/server.js (lines 30-351).                                           *)
(*                                                                         *)
(* The coordinating process is single threaded: code between two awaits    *)
(* runs without interruption.  The monitor loop is modelled by a program   *)
(* counter pc.  Labels in Yield are awaits on a storage operation: the     *)
(* operation succeeds or throws (the store is unreachable at that moment,  *)
(* or the call timed out), and a request handler may run while the loop    *)
(* waits.  All other labels are synchronous code between awaits: only the  *)
(* loop moves.  A store keeps its contents while it is unreachable.        *)
(***************************************************************************)
EXTENDS Integers, Sequences, FiniteSets, TLC

\* ------------------------------------------------------------------ bounds
MaxTerm == 3        \* no tick starts once globalTerm has reached this value
MaxWrites == 1      \* accepted POST /api/write requests
MaxInitTerm == 2    \* largest term record found in a store at process start
MaxReqTerm == 2     \* SpecReq: no request arrives once globalTerm has reached this value
MaxOverlapTerm == 2 \* SpecTicks: no second body starts once globalTerm has reached this value

\* -------------------------------------------------------- configuration
\* The ids of the databases array (server.js:39-42), in array order.
TwoNodes == <<2, 1>>

\* The array with a third database, as the repository's earlier version of
\* the server declares it (server_1.js:254-256).
ThreeNodes == <<3, 2, 1>>

null == 0           \* coordinator = null
NoRec == -1         \* the store holds no {key: "term"} document
Data == {"a", "b"}  \* request payloads

VARIABLES
    registry,                               \* the databases array of this run
    alive, role, term, connection, models,  \* databases[*] fields and models[id]
    coordinator, globalTerm,                \* server.js:44-45
    meta, docs, clock,                      \* the stores: term record, Test collection; request clock
    pc, phase, cdMaster, idx,               \* monitor loop position, connectDBs locals
    aliveDbs, ci, oi,                       \* electCoordinator locals
    syTarget, sySource, syRet, masterData,  \* syncDataFromMaster frame
    syOld, syOldTerm,                       \* what the target held when the running sync was called
    rejected, elFrom, stale, lastSync, syReq, \* history of the run
    tickFrom,                               \* what the running tick started from
    hpc, hMaster, hDoc, hSlaves, hi,        \* frame of the request in progress
    hOk, hFailed, resp,                     \* its propagate outcomes, its response
    pc2, cdMaster2, idx2, aliveDbs2, ci2, oi2, rejected2, elFrom2,  \* locals of a second
    syTarget2, sySource2, syRet2, masterData2, syOld2, syOldTerm2   \* body of the tick

\* const databases: the array is never reassigned
databases == registry

Nodes == {databases[i] : i \in 1..Len(databases)}

nodeVars == <<alive, role, term, connection, models>>
storeVars == <<meta, docs, clock>>
cdVars == <<cdMaster, idx>>
elVars == <<aliveDbs, ci, oi, rejected, elFrom>>
syVars == <<syTarget, sySource, syRet, masterData, syOld, syOldTerm>>
histVars == <<stale, lastSync, syReq>>
cdVars2 == <<cdMaster2, idx2>>
elVars2 == <<aliveDbs2, ci2, oi2, rejected2, elFrom2>>
syVars2 == <<syTarget2, sySource2, syRet2, masterData2, syOld2, syOldTerm2>>
tick1Vars == <<pc, cdVars, elVars, syVars>>
tick2Vars == <<pc2, cdVars2, elVars2, syVars2>>
reqVars == <<hpc, hMaster, hDoc, hSlaves, hi, hOk, hFailed, resp>>
vars == <<registry, alive, role, term, connection, models, coordinator, globalTerm,
          meta, docs, clock, pc, phase, cdMaster, idx, aliveDbs, ci, oi,
          syTarget, sySource, syRet, masterData, syOld, syOldTerm,
          rejected, elFrom, stale, lastSync, syReq, tickFrom,
          hpc, hMaster, hDoc, hSlaves, hi, hOk, hFailed, resp,
          pc2, cdMaster2, idx2, aliveDbs2, ci2, oi2, rejected2, elFrom2,
          syTarget2, sySource2, syRet2, masterData2, syOld2, syOldTerm2>>

\* Awaits on a storage operation, and the two resting positions.
Yield == {"idle", "halted", "rj_connect", "rj_ping", "al_connect",
          "f_connect", "f_ping", "f_find", "f_save",
          "sy_read", "sy_delete", "sy_insert", "sy_setterm",
          "el_win_persist", "el_other_persist"}

\* ----------------------------------------------------------------- helpers
Max(S) == CHOOSE x \in S : \A y \in S : y <= x
Min(S) == CHOOSE x \in S : \A y \in S : x <= y

Ids(D) == {d.id : d \in D}
AllIds == UNION {Ids(docs[n]) : n \in Nodes}

\* ObjectIds.  Every generated _id is new; the model names it by what makes
\* it distinct: the write that created the record (w), the store on which a
\* copy was inserted (h, 0 for the _id given by the write itself) and a bit g
\* that tells a copy from the copy the same store held just before.
WriteId(w) == <<w, 0, 0>>

CopyId(w, t, old) == IF <<w, t, 0>> \in Ids(old) THEN <<w, t, 1>> ELSE <<w, t, 0>>

\* databases.find((db) => db.role === "master")
FindMaster ==
    LET S == {i \in 1..Len(databases) : role[databases[i]] = "master"}
    IN IF S = {} THEN null ELSE databases[Min(S)]

\* variant: the comparator reversed, (a, b) => a.id - b.id
RECURSIVE SortDesc_Ascending(_)
SortDesc_Ascending(S) == IF S = {} THEN <<>> ELSE <<Min(S)>> \o SortDesc_Ascending(S \ {Min(S)})

\* databases.filter((db) => db.alive).sort((a, b) => b.id - a.id)
RECURSIVE SortDesc(_)
SortDesc(S) == IF S = {} THEN <<>> ELSE <<Max(S)>> \o SortDesc(S \ {Max(S)})

AliveSet(al) == {n \in Nodes : al[n]}

getHighestTerm(al, tm) ==
    IF AliveSet(al) = {} THEN 0 ELSE Max({tm[n] : n \in AliveSet(al)})

\* variant: the plain bully rule of bully_algo.md, no term check
TermTooLow_PlainBully(db, al, tm) == FALSE

\* canBecomeMaster's test: db.term < highestTerm means rejected
TermTooLow(db, al, tm) == tm[db] < getHighestTerm(al, tm)

\* masterData.map((d) => ({ data: d.data, createdAt: d.createdAt })) handed to
\* insertMany: payload and timestamp are copied, _id is not, so the store
\* generates a new _id for every copy.
insertMany(data, t, old) ==
    { [id |-> CopyId(d.createdAt, t, old), data |-> d.data, createdAt |-> d.createdAt] : d \in data }

\* Metadata.updateOne({ key: "term" }, { term: t }) without upsert
updateOneTerm(old, t) == IF old = NoRec THEN NoRec ELSE t

\* variant: the upsert option forgotten, as on line 180
upsertTerm_NoUpsert(old, t) == IF old = NoRec THEN NoRec ELSE t

\* Metadata.updateOne({ key: "term" }, { term: t }, { upsert: true })
upsertTerm(old, t) == t

\* a record set without the _ids: payloads and creation timestamps
Content(D) == {<<d.createdAt, d.data>> : d \in D}

\* the empty frame of a request handler
NoId == <<0, 0, 0>>          \* an _id that no record carries
NoDoc == [id |-> NoId, data |-> "", createdAt |-> 0]

NoResp == [code |-> 0, error |-> "", by |-> null, term |-> 0]

\* ------------------------------------------------------------------- Init
\* the process after construction (line 39-50); nothing is known of the stores
Boot ==
    /\ alive = [n \in Nodes |-> FALSE]
    /\ role = [n \in Nodes |-> "unknown"]
    /\ term = [n \in Nodes |-> 0]
    /\ connection = [n \in Nodes |-> FALSE]
    /\ models = [n \in Nodes |-> FALSE]
    /\ coordinator = null
    /\ globalTerm = 0
    /\ pc = "cd_begin"
    /\ phase = "boot"
    /\ cdMaster = null
    /\ idx = 0
    /\ aliveDbs = <<>>
    /\ ci = 0
    /\ oi = 0
    /\ syTarget = null
    /\ sySource = null
    /\ syRet = "none"
    /\ masterData = {}
    /\ syOld = {}
    /\ syOldTerm = 0
    /\ rejected = {}
    /\ elFrom = <<>>
    /\ tickFrom = <<>>
    /\ stale = [n \in Nodes |-> FALSE]
    /\ lastSync = <<>>
    /\ syReq = "none"
    /\ hpc = "none"
    /\ hMaster = null
    /\ hDoc = NoDoc
    /\ hSlaves = <<>>
    /\ hi = 0
    /\ hOk = {}
    /\ hFailed = {}
    /\ resp = NoResp
    /\ pc2 = "idle"
    /\ cdMaster2 = null
    /\ idx2 = 0
    /\ aliveDbs2 = <<>>
    /\ ci2 = 0
    /\ oi2 = 0
    /\ rejected2 = {}
    /\ elFrom2 = <<>>
    /\ syTarget2 = null
    /\ sySource2 = null
    /\ syRet2 = "none"
    /\ masterData2 = {}
    /\ syOld2 = {}
    /\ syOldTerm2 = 0

\* the stores hold no record and no or any term record
Init ==
    /\ registry = TwoNodes
    /\ Boot
    /\ meta \in [Nodes -> {NoRec} \cup 0..MaxInitTerm]
    /\ docs = [n \in Nodes |-> {}]
    /\ clock = 0

\* ------------------------------------------------------- request handlers
\* Both handlers run between two awaits of the monitor loop.  F is the set
\* of stores whose operation throws during the request.  A request refused
\* by the guards (no coordinator, save on the coordinator failed, document
\* not found) changes nothing.
Slaves(c) == {n \in Nodes : alive[n] /\ n /= c}

\* what the running synchronize, if any, has seen of the requests: none, some,
\* or one acknowledged while its target was (or was then marked) not alive
DuringSync(al) ==
    IF syTarget = null THEN "none"
    ELSE IF syTarget /= coordinator /\ ~al[syTarget] THEN "missed"
    ELSE IF syReq = "missed" THEN "missed" ELSE "some"

\* new SlaveModel(savedDoc.toObject()).save(): the copy keeps the _id; the
\* insert fails when the store throws or already holds that _id
PropagateOk(s, doc, F) == s \notin F /\ doc.id \notin Ids(docs[s])

\* POST /api/write
Write(d, F) ==
    /\ pc \in Yield
    /\ clock < MaxWrites
    /\ coordinator /= null /\ alive[coordinator]
    /\ models[coordinator] /\ coordinator \notin F
    /\ LET c == coordinator
           doc == [id |-> WriteId(clock + 1), data |-> d, createdAt |-> clock + 1]
           failed == {s \in Slaves(c) : models[s] /\ ~PropagateOk(s, doc, F)}
       IN /\ docs' = [n \in Nodes |->
                        IF n = c \/ (n \in Slaves(c) /\ models[n] /\ PropagateOk(n, doc, F))
                        THEN docs[n] \cup {doc} ELSE docs[n]]
          /\ alive' = [n \in Nodes |-> IF n \in failed THEN FALSE ELSE alive[n]]
          /\ stale' = [n \in Nodes |-> stale[n] \/ (n /= c /\ ~alive'[n])]
    /\ clock' = clock + 1
    /\ lastSync' = <<>>
    /\ syReq' = DuringSync(alive')
    /\ UNCHANGED <<role, term, connection, models, coordinator, globalTerm, meta,
                   pc, phase, cdVars, elVars, syVars>>
    /\ pc2 \in Yield /\ UNCHANGED <<registry, tickFrom, reqVars, tick2Vars>>

\* Model.findByIdAndUpdate(id, { data }, { new: true }) on one collection
findByIdAndUpdate(D, id, d) ==
    {IF e.id = id THEN [e EXCEPT !.data = d] ELSE e : e \in D}

\* PUT /api/update/:id
Update(id, d, F) ==
    /\ pc \in Yield
    /\ coordinator /= null /\ alive[coordinator]
    /\ models[coordinator] /\ coordinator \notin F
    /\ id \in Ids(docs[coordinator])
    /\ LET c == coordinator
           failed == {s \in Slaves(c) : models[s] /\ s \in F}
       IN /\ docs' = [n \in Nodes |->
                        IF n = c \/ (n \in Slaves(c) /\ models[n] /\ n \notin F)
                        THEN findByIdAndUpdate(docs[n], id, d) ELSE docs[n]]
          /\ alive' = [n \in Nodes |-> IF n \in failed THEN FALSE ELSE alive[n]]
          /\ stale' = [n \in Nodes |-> stale[n] \/ (n /= c /\ ~alive'[n])]
    /\ lastSync' = <<>>
    /\ syReq' = DuringSync(alive')
    /\ UNCHANGED <<role, term, connection, models, coordinator, globalTerm, meta,
                   clock, pc, phase, cdVars, elVars, syVars>>
    /\ pc2 \in Yield /\ UNCHANGED <<registry, tickFrom, reqVars, tick2Vars>>

\* ------------------------------------ request handlers, await by await
\* The same two handlers with every await a separate step, so that the loop
\* runs while a request waits for a store.  One request is in progress at a
\* time.  hMaster is the node whose model the handler captured (line 255,
\* 306); the coordinator variable is read again after the awaits (line 258,
\* 272, 314).
\* request bodies; "" is a body without data
WriteBodies == {"a", ""}
UpdateBodies == {"b", ""}

\* res.status(c).json({ error })
Failure(c, e) == [code |-> c, error |-> e, by |-> null, term |-> 0]

\* line 272: the response names coordinator.name and coordinator.term
Written == [code |-> 201, error |-> "", by |-> coordinator, term |-> term[coordinator]]

\* line 328
Updated == [code |-> 200, error |-> "", by |-> null, term |-> 0]

\* variant: the handlers test the reference only
NoCoordinator_NullOnly == coordinator = null

\* line 251, 303: !coordinator || !coordinator.alive
NoCoordinator == coordinator = null \/ ~alive[coordinator]

\* line 249-255, 302-306: the request passes the checks made before the
\* first await
Accepted(d) == d /= "" /\ ~NoCoordinator /\ models[coordinator]

Respond(r) == hpc' = "responded" /\ resp' = r

\* the early returns (and the TypeError of models[coordinator.id]?.Test
\* being undefined, caught on line 273, 329)
Refuse(d) ==
    /\ hDoc' = [NoDoc EXCEPT !.data = d]
    /\ Respond(IF d = "" THEN Failure(400, "DataRequired")
               ELSE IF NoCoordinator THEN Failure(500, "NoCoordinator")
               ELSE Failure(500, "TypeError"))
    /\ UNCHANGED hMaster

\* line 258, 314: databases.filter((d) => d.alive && d.id !== coordinator.id)
\* in array order; coordinator.id throws a TypeError when the reference is
\* null and some node is alive
FilterThrows == coordinator = null /\ \E n \in Nodes : alive[n]

SlaveSeq == SelectSeq(databases, LAMBDA n : alive[n] /\ n /= coordinator)

\* line 259-261, 315-318: the next slave that has a model, or the response
Continue(sl, i, prop, done) ==
    LET J == {j \in i..Len(sl) : models[sl[j]]}
    IN /\ hSlaves' = sl
       /\ IF J /= {}
          THEN hi' = Min(J) /\ hpc' = prop /\ UNCHANGED resp
          ELSE hi' = Len(sl) + 1 /\ Respond(done)

\* line 272 with coordinator read again
WriteResponse == IF coordinator = null THEN Failure(500, "TypeError") ELSE Written

\* POST /api/write up to its first await (line 247-256)
ReqWrite(d) ==
    /\ hpc = "none" /\ pc \in Yield
    /\ globalTerm < MaxReqTerm
    /\ IF Accepted(d)
       THEN /\ clock < MaxWrites
            /\ hDoc' = [id |-> WriteId(clock + 1), data |-> d, createdAt |-> clock + 1]
            /\ hMaster' = coordinator
            /\ clock' = clock + 1
            /\ hpc' = "w_save"
            /\ UNCHANGED resp
       ELSE Refuse(d) /\ UNCHANGED clock
    /\ UNCHANGED <<hSlaves, hi, hOk, hFailed>>
    /\ UNCHANGED <<nodeVars, coordinator, globalTerm, meta, docs, pc, phase,
                   cdVars, elVars, syVars, histVars>>
    /\ pc2 \in Yield /\ UNCHANGED <<registry, tickFrom, tick2Vars>>

\* variant: a failed save on the master is ignored and the propagate runs
w_save_IgnoreFailure ==
    /\ hpc = "w_save" /\ pc \in Yield
    /\ \E ok \in BOOLEAN :
       /\ IF ~ok
          THEN UNCHANGED <<docs, hOk, histVars>>
          ELSE /\ docs' = [docs EXCEPT ![hMaster] = @ \cup {hDoc}]
               /\ stale' = [n \in Nodes |-> stale[n] \/ (n /= hMaster /\ ~alive[n])]
               /\ hOk' = hOk \cup {hMaster}
               /\ lastSync' = <<>>
               /\ syReq' = DuringSync(alive)
       /\ IF FilterThrows
          THEN Respond(Failure(500, "TypeError")) /\ UNCHANGED <<hSlaves, hi>>
          ELSE Continue(SlaveSeq, 1, "w_prop", WriteResponse)
    /\ UNCHANGED <<hMaster, hDoc, hFailed>>
    /\ UNCHANGED <<nodeVars, coordinator, globalTerm, meta, clock, pc, phase,
                   cdVars, elVars, syVars>>
    /\ pc2 \in Yield /\ UNCHANGED <<registry, tickFrom, tick2Vars>>

\* line 256-263: the save on the master returns or throws; slaves
w_save ==
    /\ hpc = "w_save" /\ pc \in Yield
    /\ \E ok \in BOOLEAN :
       IF ~ok
       THEN /\ Respond(Failure(500, "Storage"))
            /\ UNCHANGED <<docs, hSlaves, hi, hOk, histVars>>
       ELSE /\ docs' = [docs EXCEPT ![hMaster] = @ \cup {hDoc}]
            /\ stale' = [n \in Nodes |-> stale[n] \/ (n /= hMaster /\ ~alive[n])]
            /\ hOk' = hOk \cup {hMaster}
            /\ lastSync' = <<>>
            /\ syReq' = DuringSync(alive)
            /\ IF FilterThrows
               THEN Respond(Failure(500, "TypeError")) /\ UNCHANGED <<hSlaves, hi>>
               ELSE Continue(SlaveSeq, 1, "w_prop", WriteResponse)
    /\ UNCHANGED <<hMaster, hDoc, hFailed>>
    /\ UNCHANGED <<nodeVars, coordinator, globalTerm, meta, clock, pc, phase,
                   cdVars, elVars, syVars>>
    /\ pc2 \in Yield /\ UNCHANGED <<registry, tickFrom, tick2Vars>>

\* variant: a failed propagate resets the role as the catch of line 109-114 does
w_prop_ResetRole ==
    /\ hpc = "w_prop" /\ pc \in Yield
    /\ \E ok \in BOOLEAN :
       LET s == hSlaves[hi]
       IN IF ok /\ hDoc.id \notin Ids(docs[s])
          THEN /\ docs' = [docs EXCEPT ![s] = @ \cup {hDoc}]
               /\ hOk' = hOk \cup {s}
               /\ UNCHANGED <<alive, role, hFailed, stale>>
          ELSE /\ alive' = [alive EXCEPT ![s] = FALSE]
               /\ role' = [role EXCEPT ![s] = "unknown"]
               /\ hFailed' = hFailed \cup {s}
               /\ stale' = [stale EXCEPT ![s] = TRUE]
               /\ UNCHANGED <<docs, hOk>>
    /\ lastSync' = <<>>
    /\ syReq' = DuringSync(alive')
    /\ Continue(hSlaves, hi + 1, "w_prop", WriteResponse)
    /\ UNCHANGED <<hMaster, hDoc>>
    /\ UNCHANGED <<term, connection, models, coordinator, globalTerm, meta, clock,
                   pc, phase, cdVars, elVars, syVars>>
    /\ pc2 \in Yield /\ UNCHANGED <<registry, tickFrom, tick2Vars>>

\* line 263-272: the save on a slave returns or throws; next slave or response
w_prop ==
    /\ hpc = "w_prop" /\ pc \in Yield
    /\ \E ok \in BOOLEAN :
       LET s == hSlaves[hi]
       IN IF ok /\ hDoc.id \notin Ids(docs[s])
          THEN /\ docs' = [docs EXCEPT ![s] = @ \cup {hDoc}]
               /\ hOk' = hOk \cup {s}
               /\ UNCHANGED <<alive, hFailed, stale>>
          ELSE /\ alive' = [alive EXCEPT ![s] = FALSE]
               /\ hFailed' = hFailed \cup {s}
               /\ stale' = [stale EXCEPT ![s] = TRUE]
               /\ UNCHANGED <<docs, hOk>>
    /\ lastSync' = <<>>
    /\ syReq' = DuringSync(alive')
    /\ Continue(hSlaves, hi + 1, "w_prop", WriteResponse)
    /\ UNCHANGED <<hMaster, hDoc>>
    /\ UNCHANGED <<role, term, connection, models, coordinator, globalTerm, meta, clock,
                   pc, phase, cdVars, elVars, syVars>>
    /\ pc2 \in Yield /\ UNCHANGED <<registry, tickFrom, tick2Vars>>

\* PUT /api/update/:id up to its first await (line 298-309)
ReqUpdate(id, d) ==
    /\ hpc = "none" /\ pc \in Yield
    /\ globalTerm < MaxReqTerm
    /\ IF Accepted(d)
       THEN /\ hDoc' = [id |-> id, data |-> d, createdAt |-> 0]
            /\ hMaster' = coordinator
            /\ hpc' = "u_find"
            /\ UNCHANGED resp
       ELSE Refuse(d)
    /\ UNCHANGED <<hSlaves, hi, hOk, hFailed>>
    /\ UNCHANGED <<nodeVars, coordinator, globalTerm, storeVars, pc, phase,
                   cdVars, elVars, syVars, histVars>>
    /\ pc2 \in Yield /\ UNCHANGED <<registry, tickFrom, tick2Vars>>

\* variant: line 311 missing
u_find_NoNotFound ==
    /\ hpc = "u_find" /\ pc \in Yield
    /\ \E ok \in BOOLEAN :
       IF ~ok
       THEN /\ Respond(Failure(500, "Storage"))
            /\ UNCHANGED <<docs, hSlaves, hi, hOk, histVars>>
       ELSE /\ docs' = [docs EXCEPT ![hMaster] = findByIdAndUpdate(@, hDoc.id, hDoc.data)]
            /\ stale' = [n \in Nodes |-> stale[n] \/ (n /= hMaster /\ ~alive[n])]
            /\ hOk' = hOk \cup {hMaster}
            /\ lastSync' = <<>>
            /\ syReq' = DuringSync(alive)
            /\ IF FilterThrows
               THEN Respond(Failure(500, "TypeError")) /\ UNCHANGED <<hSlaves, hi>>
               ELSE Continue(SlaveSeq, 1, "u_prop", Updated)
    /\ UNCHANGED <<hMaster, hDoc, hFailed>>
    /\ UNCHANGED <<nodeVars, coordinator, globalTerm, meta, clock, pc, phase,
                   cdVars, elVars, syVars>>
    /\ pc2 \in Yield /\ UNCHANGED <<registry, tickFrom, tick2Vars>>

\* line 309-319: findByIdAndUpdate on the master returns the document, null
\* or throws; slaves
u_find ==
    /\ hpc = "u_find" /\ pc \in Yield
    /\ \E ok \in BOOLEAN :
       IF ~ok
       THEN /\ Respond(Failure(500, "Storage"))
            /\ UNCHANGED <<docs, hSlaves, hi, hOk, histVars>>
       ELSE IF hDoc.id \notin Ids(docs[hMaster])
       THEN /\ Respond(Failure(404, "NotFound"))
            /\ UNCHANGED <<docs, hSlaves, hi, hOk, histVars>>
       ELSE /\ docs' = [docs EXCEPT ![hMaster] = findByIdAndUpdate(@, hDoc.id, hDoc.data)]
            /\ stale' = [n \in Nodes |-> stale[n] \/ (n /= hMaster /\ ~alive[n])]
            /\ hOk' = hOk \cup {hMaster}
            /\ lastSync' = <<>>
            /\ syReq' = DuringSync(alive)
            /\ IF FilterThrows
               THEN Respond(Failure(500, "TypeError")) /\ UNCHANGED <<hSlaves, hi>>
               ELSE Continue(SlaveSeq, 1, "u_prop", Updated)
    /\ UNCHANGED <<hMaster, hDoc, hFailed>>
    /\ UNCHANGED <<nodeVars, coordinator, globalTerm, meta, clock, pc, phase,
                   cdVars, elVars, syVars>>
    /\ pc2 \in Yield /\ UNCHANGED <<registry, tickFrom, tick2Vars>>

\* line 319-328: findByIdAndUpdate on a slave returns or throws
u_prop ==
    /\ hpc = "u_prop" /\ pc \in Yield
    /\ \E ok \in BOOLEAN :
       LET s == hSlaves[hi]
       IN IF ok
          THEN /\ docs' = [docs EXCEPT ![s] = findByIdAndUpdate(@, hDoc.id, hDoc.data)]
               /\ hOk' = hOk \cup {s}
               /\ UNCHANGED <<alive, hFailed, stale>>
          ELSE /\ alive' = [alive EXCEPT ![s] = FALSE]
               /\ hFailed' = hFailed \cup {s}
               /\ stale' = [stale EXCEPT ![s] = TRUE]
               /\ UNCHANGED <<docs, hOk>>
    /\ lastSync' = <<>>
    /\ syReq' = DuringSync(alive')
    /\ Continue(hSlaves, hi + 1, "u_prop", Updated)
    /\ UNCHANGED <<hMaster, hDoc>>
    /\ UNCHANGED <<role, term, connection, models, coordinator, globalTerm, meta, clock,
                   pc, phase, cdVars, elVars, syVars>>
    /\ pc2 \in Yield /\ UNCHANGED <<registry, tickFrom, tick2Vars>>

\* GET /api/read/:dbId up to its first await (line 278-286); n is the parsed
\* dbId, which may be the id of no database
ReqRead(n) ==
    /\ hpc = "none" /\ pc \in Yield
    /\ globalTerm < MaxReqTerm
    /\ IF n \notin Nodes \/ ~alive[n]
       THEN Respond(Failure(404, "NotAlive")) /\ UNCHANGED hMaster
       ELSE IF ~models[n]
       THEN Respond(Failure(500, "TypeError")) /\ UNCHANGED hMaster
       ELSE hMaster' = n /\ hpc' = "r_find" /\ UNCHANGED resp
    /\ UNCHANGED <<hDoc, hSlaves, hi, hOk, hFailed>>
    /\ UNCHANGED <<nodeVars, coordinator, globalTerm, storeVars, pc, phase,
                   cdVars, elVars, syVars, histVars>>
    /\ pc2 \in Yield /\ UNCHANGED <<registry, tickFrom, tick2Vars>>

\* line 287-292: the answer of a read; role and term are read after the await
ReadResponse(n) ==
    [code |-> 200, from |-> n, role |-> role[n], term |-> term[n],
     data |-> Content(docs[n])]

\* line 286-294: the find returns or throws
r_find ==
    /\ hpc = "r_find" /\ pc \in Yield
    /\ \E ok \in BOOLEAN :
       Respond(IF ok THEN ReadResponse(hMaster) ELSE Failure(500, "Storage"))
    /\ UNCHANGED <<hMaster, hDoc, hSlaves, hi, hOk, hFailed>>
    /\ UNCHANGED <<nodeVars, coordinator, globalTerm, storeVars, pc, phase,
                   cdVars, elVars, syVars, histVars>>
    /\ pc2 \in Yield /\ UNCHANGED <<registry, tickFrom, tick2Vars>>

\* line 336-345: the answer of status
StatusReport ==
    [code |-> 200,
     nodes |-> [i \in 1..Len(databases) |->
                  [id |-> databases[i], alive |-> alive[databases[i]],
                   role |-> role[databases[i]], term |-> term[databases[i]],
                   isCoordinator |-> coordinator = databases[i]]]]

\* GET /api/status (line 335-346), synchronous
ReqStatus ==
    /\ hpc = "none" /\ pc \in Yield
    /\ globalTerm < MaxReqTerm
    /\ Respond(StatusReport)
    /\ UNCHANGED <<hMaster, hDoc, hSlaves, hi, hOk, hFailed>>
    /\ UNCHANGED <<nodeVars, coordinator, globalTerm, storeVars, pc, phase,
                   cdVars, elVars, syVars, histVars>>
    /\ pc2 \in Yield /\ UNCHANGED <<registry, tickFrom, tick2Vars>>

\* the response has been sent; the handler's frame is released
ReqDone ==
    /\ hpc = "responded"
    /\ hpc' = "none"
    /\ hMaster' = null
    /\ hDoc' = NoDoc
    /\ hSlaves' = <<>>
    /\ hi' = 0
    /\ hOk' = {}
    /\ hFailed' = {}
    /\ resp' = NoResp
    /\ UNCHANGED <<nodeVars, coordinator, globalTerm, storeVars, pc, phase,
                   cdVars, elVars, syVars, histVars>>
    /\ pc2 \in Yield /\ UNCHANGED <<registry, tickFrom, tick2Vars>>

\* ------------------------------------------------------------- connectDBs
db == databases[idx]

\* setInterval callback: a new tick of the monitor loop
TickStart ==
    /\ pc = "idle"
    /\ globalTerm < MaxTerm
    /\ pc' = "cd_begin"
    /\ UNCHANGED <<nodeVars, coordinator, globalTerm, storeVars, phase,
                   cdVars, elVars, syVars, histVars>>
    /\ tickFrom' = <<coordinator, globalTerm, role, alive>>
    /\ pc2 \in Yield /\ UNCHANGED <<registry, reqVars, tick2Vars>>

\* line 77-78: look the master up by role and choose the pass
cd_begin ==
    /\ pc = "cd_begin"
    /\ cdMaster' = FindMaster
    /\ idx' = 1
    /\ pc' = IF FindMaster /= null THEN "cd_m_head" ELSE "cd_f_head"
    /\ UNCHANGED <<nodeVars, coordinator, globalTerm, storeVars, phase,
                   elVars, syVars, histVars>>
    /\ pc2 \in Yield /\ UNCHANGED <<registry, tickFrom, reqVars, tick2Vars>>

\* line 79-80, 104: loop head of the pass with a master
cd_m_head ==
    /\ pc = "cd_m_head"
    /\ pc' = IF idx > Len(databases) THEN "cd_done"
             ELSE IF ~alive[db] THEN "rj_connect" ELSE "al_connect"
    /\ UNCHANGED <<nodeVars, coordinator, globalTerm, storeVars, phase,
                   cdVars, elVars, syVars, histVars>>
    /\ pc2 \in Yield /\ UNCHANGED <<registry, tickFrom, reqVars, tick2Vars>>

\* line 98-102: catch of the rejoin pass (role is left as it is)
RejoinCatch(n) ==
    /\ alive' = [alive EXCEPT ![n] = FALSE]
    /\ connection' = [connection EXCEPT ![n] = FALSE]
    /\ idx' = idx + 1
    /\ pc' = "cd_m_head"
    /\ UNCHANGED <<role, term, models, cdMaster>>

\* line 82-88: createConnection, waitForConnection, models[db.id] = ...
rj_connect ==
    /\ pc = "rj_connect"
    /\ \E ok \in BOOLEAN :
       IF ok
       THEN /\ connection' = [connection EXCEPT ![db] = TRUE]
            /\ models' = [models EXCEPT ![db] = TRUE]
            /\ pc' = "rj_ping"
            /\ UNCHANGED <<alive, role, term, cdVars>>
       ELSE RejoinCatch(db)
    /\ UNCHANGED <<coordinator, globalTerm, storeVars, phase, elVars, syVars, histVars>>
    /\ pc2 \in Yield /\ UNCHANGED <<registry, tickFrom, reqVars, tick2Vars>>

\* line 90-95: findOne, db.alive = true, call syncDataFromMaster(db, master)
rj_ping ==
    /\ pc = "rj_ping"
    /\ \E ok \in BOOLEAN :
       IF ok
       THEN /\ alive' = [alive EXCEPT ![db] = TRUE]
            /\ syTarget' = db
            /\ sySource' = cdMaster
            /\ syRet' = "rejoin"
            /\ pc' = "sy_call"
            /\ UNCHANGED <<role, term, connection, models, cdVars>>
       ELSE /\ RejoinCatch(db)
            /\ UNCHANGED <<syTarget, sySource, syRet>>
    /\ UNCHANGED <<coordinator, globalTerm, storeVars, phase, elVars,
                   masterData, syOld, syOldTerm, histVars>>
    /\ pc2 \in Yield /\ UNCHANGED <<registry, tickFrom, reqVars, tick2Vars>>

\* variant: the catch leaves the role as it is, as the catch of line 98-102 does
ConnectCatch_KeepRole(n) ==
    /\ alive' = [alive EXCEPT ![n] = FALSE]
    /\ connection' = [connection EXCEPT ![n] = FALSE]
    /\ UNCHANGED role

\* line 109-114 and 142-147: catch of the alive-node pass and of the full pass
ConnectCatch(n) ==
    /\ alive' = [alive EXCEPT ![n] = FALSE]
    /\ connection' = [connection EXCEPT ![n] = FALSE]
    /\ role' = [role EXCEPT ![n] = "unknown"]

\* line 105-114: reconnect an alive node
al_connect ==
    /\ pc = "al_connect"
    /\ \E ok \in BOOLEAN :
       IF ok
       THEN /\ connection' = [connection EXCEPT ![db] = TRUE]
            /\ UNCHANGED <<alive, role>>
       ELSE ConnectCatch(db)
    /\ idx' = idx + 1
    /\ pc' = "cd_m_head"
    /\ UNCHANGED <<term, models, cdMaster, coordinator, globalTerm, storeVars, phase,
                   elVars, syVars, histVars>>
    /\ pc2 \in Yield /\ UNCHANGED <<registry, tickFrom, reqVars, tick2Vars>>

\* line 121: loop head of the full pass
cd_f_head ==
    /\ pc = "cd_f_head"
    /\ pc' = IF idx > Len(databases) THEN "cd_done" ELSE "f_connect"
    /\ UNCHANGED <<nodeVars, coordinator, globalTerm, storeVars, phase,
                   cdVars, elVars, syVars, histVars>>
    /\ pc2 \in Yield /\ UNCHANGED <<registry, tickFrom, reqVars, tick2Vars>>

FullCatch(n) ==
    /\ ConnectCatch(n)
    /\ idx' = idx + 1
    /\ pc' = "cd_f_head"

\* line 123-129
f_connect ==
    /\ pc = "f_connect"
    /\ \E ok \in BOOLEAN :
       IF ok
       THEN /\ connection' = [connection EXCEPT ![db] = TRUE]
            /\ models' = [models EXCEPT ![db] = TRUE]
            /\ pc' = "f_ping"
            /\ UNCHANGED <<alive, role, idx>>
       ELSE /\ FullCatch(db)
            /\ UNCHANGED models
    /\ UNCHANGED <<term, cdMaster, coordinator, globalTerm, storeVars, phase,
                   elVars, syVars, histVars>>
    /\ pc2 \in Yield /\ UNCHANGED <<registry, tickFrom, reqVars, tick2Vars>>

\* line 131-133
f_ping ==
    /\ pc = "f_ping"
    /\ \E ok \in BOOLEAN :
       IF ok
       THEN /\ alive' = [alive EXCEPT ![db] = TRUE]
            /\ pc' = "f_find"
            /\ UNCHANGED <<role, connection, idx>>
       ELSE FullCatch(db)
    /\ UNCHANGED <<term, models, cdMaster, coordinator, globalTerm, storeVars, phase,
                   elVars, syVars, histVars>>
    /\ pc2 \in Yield /\ UNCHANGED <<registry, tickFrom, reqVars, tick2Vars>>

\* line 135-139: read the term record; db.term = meta.term when it exists
f_find ==
    /\ pc = "f_find"
    /\ \E ok \in BOOLEAN :
       IF ok
       THEN /\ IF meta[db] = NoRec
               THEN pc' = "f_save" /\ UNCHANGED <<term, idx>>
               ELSE /\ term' = [term EXCEPT ![db] = meta[db]]
                    /\ idx' = idx + 1
                    /\ pc' = "cd_f_head"
            /\ UNCHANGED <<alive, role, connection>>
       ELSE FullCatch(db) /\ UNCHANGED term
    /\ UNCHANGED <<models, cdMaster, coordinator, globalTerm, storeVars, phase,
                   elVars, syVars, histVars>>
    /\ pc2 \in Yield /\ UNCHANGED <<registry, tickFrom, reqVars, tick2Vars>>

\* line 137-139: create the term record with term 0
f_save ==
    /\ pc = "f_save"
    /\ \E ok \in BOOLEAN :
       IF ok /\ meta[db] = NoRec
       THEN /\ meta' = [meta EXCEPT ![db] = 0]
            /\ term' = [term EXCEPT ![db] = 0]
            /\ idx' = idx + 1
            /\ pc' = "cd_f_head"
            /\ UNCHANGED <<alive, role, connection>>
       ELSE FullCatch(db) /\ UNCHANGED <<term, meta>>
    /\ UNCHANGED <<models, cdMaster, coordinator, globalTerm, docs, clock, phase,
                   elVars, syVars, histVars>>
    /\ pc2 \in Yield /\ UNCHANGED <<registry, tickFrom, reqVars, tick2Vars>>

\* variant: a tick elects only when there is no coordinator reference
cd_done_NullOnly ==
    /\ pc = "cd_done"
    /\ pc' = IF phase = "boot" \/ coordinator = null
             THEN "el_begin" ELSE "tick_end"
    /\ UNCHANGED <<nodeVars, coordinator, globalTerm, storeVars, phase,
                   cdVars, elVars, syVars, histVars>>
    /\ pc2 \in Yield /\ UNCHANGED <<registry, tickFrom, reqVars, tick2Vars>>

\* variant: every tick elects
cd_done_AlwaysElect ==
    /\ pc = "cd_done"
    /\ pc' = "el_begin"
    /\ UNCHANGED <<nodeVars, coordinator, globalTerm, storeVars, phase,
                   cdVars, elVars, syVars, histVars>>
    /\ pc2 \in Yield /\ UNCHANGED <<registry, tickFrom, reqVars, tick2Vars>>

\* line 231-232 and 235-241: after connectDBs the first run always elects,
\* a tick elects when there is no coordinator or it is not alive
cd_done ==
    /\ pc = "cd_done"
    /\ pc' = IF phase = "boot" \/ coordinator = null \/ ~alive[coordinator]
             THEN "el_begin" ELSE "tick_end"
    /\ UNCHANGED <<nodeVars, coordinator, globalTerm, storeVars, phase,
                   cdVars, elVars, syVars, histVars>>
    /\ pc2 \in Yield /\ UNCHANGED <<registry, tickFrom, reqVars, tick2Vars>>

\* --------------------------------------------------- syncDataFromMaster
ClearSync ==
    /\ syTarget' = null
    /\ sySource' = null
    /\ syRet' = "none"
    /\ masterData' = {}
    /\ syOld' = {}
    /\ syOldTerm' = 0

\* variant: a candidate that has been synchronized is considered again
SyncReturn_RetryCandidate ==
    /\ ClearSync
    /\ CASE syRet = "rejoin" -> \* line 96-97, next database
                /\ idx' = idx + 1
                /\ pc' = "cd_m_head"
                /\ UNCHANGED <<ci, oi>>
         [] syRet = "cand" ->   \* line 192: return false, next candidate
                /\ pc' = "el_cand"
                /\ UNCHANGED <<idx, ci, oi>>
         [] syRet = "other" ->  \* line 217-218, next node to demote
                /\ oi' = oi + 1
                /\ pc' = "el_other"
                /\ UNCHANGED <<idx, ci>>

\* the caller's code after the awaited call returns
SyncReturn ==
    /\ ClearSync
    /\ CASE syRet = "rejoin" -> \* line 96-97, next database
                /\ idx' = idx + 1
                /\ pc' = "cd_m_head"
                /\ UNCHANGED <<ci, oi>>
         [] syRet = "cand" ->   \* line 192: return false, next candidate
                /\ ci' = ci + 1
                /\ pc' = "el_cand"
                /\ UNCHANGED <<idx, oi>>
         [] syRet = "other" ->  \* line 217-218, next node to demote
                /\ oi' = oi + 1
                /\ pc' = "el_other"
                /\ UNCHANGED <<idx, ci>>

\* a storage error inside the call: caught by the rejoin pass (line 98-102),
\* not caught by canBecomeMaster and electCoordinator
SyncThrow ==
    /\ ClearSync
    /\ IF syRet = "rejoin"
       THEN /\ alive' = [alive EXCEPT ![syTarget] = FALSE]
            /\ connection' = [connection EXCEPT ![syTarget] = FALSE]
            /\ idx' = idx + 1
            /\ pc' = "cd_m_head"
       ELSE /\ pc' = "threw"
            /\ UNCHANGED <<alive, connection, idx>>

\* line 160-168: the two early returns
sy_call ==
    /\ pc = "sy_call"
    /\ IF syTarget = sySource \/ ~models[syTarget] \/ ~models[sySource]
       THEN SyncReturn
       ELSE /\ pc' = "sy_read"
            /\ syOldTerm' = term[syTarget]
            /\ UNCHANGED <<syTarget, sySource, syRet, masterData, syOld, idx, ci, oi>>
    /\ syReq' = "none"
    /\ UNCHANGED <<nodeVars, coordinator, globalTerm, storeVars, phase, cdMaster,
                   aliveDbs, rejected, elFrom, stale, lastSync>>
    /\ pc2 \in Yield /\ UNCHANGED <<registry, tickFrom, reqVars, tick2Vars>>

\* line 169: masterData = await models[master.id].Test.find({})
sy_read ==
    /\ pc = "sy_read"
    /\ \E ok \in BOOLEAN :
       IF ok
       THEN /\ masterData' = docs[sySource]
            /\ pc' = "sy_delete"
            /\ UNCHANGED <<alive, connection, idx, syTarget, sySource, syRet, syOld, syOldTerm>>
       ELSE SyncThrow
    /\ UNCHANGED <<role, term, models, coordinator, globalTerm, storeVars, phase, cdMaster,
                   aliveDbs, ci, oi, rejected, elFrom, histVars>>
    /\ pc2 \in Yield /\ UNCHANGED <<registry, tickFrom, reqVars, tick2Vars>>

\* line 171-173 (and 178 when there is nothing to insert)
sy_delete ==
    /\ pc = "sy_delete"
    /\ \E ok \in BOOLEAN :
       IF ok
       THEN /\ syOld' = docs[syTarget]
            /\ docs' = [docs EXCEPT ![syTarget] = {}]
            /\ IF masterData = {}
               THEN /\ term' = [term EXCEPT ![syTarget] = term[sySource]]
                    /\ pc' = "sy_setterm"
               ELSE /\ pc' = "sy_insert"
                    /\ UNCHANGED term
            /\ UNCHANGED <<alive, connection, idx, syTarget, sySource, syRet, masterData, syOldTerm>>
       ELSE SyncThrow /\ UNCHANGED <<docs, term>>
    /\ UNCHANGED <<role, models, coordinator, globalTerm, meta, clock, phase, cdMaster,
                   aliveDbs, ci, oi, rejected, elFrom, histVars>>
    /\ pc2 \in Yield /\ UNCHANGED <<registry, tickFrom, reqVars, tick2Vars>>

\* line 174-178: insertMany of the copies, then db.term = master.term
sy_insert ==
    /\ pc = "sy_insert"
    /\ \E ok \in BOOLEAN :
       IF ok
       THEN /\ docs' = [docs EXCEPT ![syTarget] =
                          @ \cup insertMany(masterData, syTarget, syOld)]
            /\ term' = [term EXCEPT ![syTarget] = term[sySource]]
            /\ pc' = "sy_setterm"
            /\ UNCHANGED <<alive, connection, idx, syVars>>
       ELSE SyncThrow /\ UNCHANGED <<docs, term>>
    /\ UNCHANGED <<role, models, coordinator, globalTerm, meta, clock, phase, cdMaster,
                   aliveDbs, ci, oi, rejected, elFrom, histVars>>
    /\ pc2 \in Yield /\ UNCHANGED <<registry, tickFrom, reqVars, tick2Vars>>

\* line 180: Metadata.updateOne({ key: "term" }, { term: db.term })
sy_setterm ==
    /\ pc = "sy_setterm"
    /\ \E ok \in BOOLEAN :
       IF ok
       THEN /\ meta' = [meta EXCEPT ![syTarget] = updateOneTerm(@, term[syTarget])]
            /\ pc' = "sy_done"
            /\ UNCHANGED <<alive, connection, idx, syVars>>
       ELSE SyncThrow /\ UNCHANGED meta
    /\ UNCHANGED <<role, term, models, coordinator, globalTerm, docs, clock, phase, cdMaster,
                   aliveDbs, ci, oi, rejected, elFrom, histVars>>
    /\ pc2 \in Yield /\ UNCHANGED <<registry, tickFrom, reqVars, tick2Vars>>

\* line 181-182: the call has completed; back in the caller
sy_done ==
    /\ pc = "sy_done"
    /\ SyncReturn
    /\ stale' = [stale EXCEPT ![syTarget] = @ /\ syReq = "missed"]
    /\ lastSync' = IF syReq = "none" THEN <<syTarget, sySource>> ELSE <<>>
    /\ syReq' = "none"
    /\ UNCHANGED <<nodeVars, coordinator, globalTerm, storeVars, phase, cdMaster,
                   aliveDbs, rejected, elFrom>>
    /\ pc2 \in Yield /\ UNCHANGED <<registry, tickFrom, reqVars, tick2Vars>>

\* ------------------------------------------------------ electCoordinator
cand == aliveDbs[ci]
other == aliveDbs[oi]

\* variant: the term counts only the attempts that have a candidate
el_begin_CountCandidates ==
    /\ pc = "el_begin"
    /\ globalTerm' = IF AliveSet(alive) = {} THEN globalTerm ELSE globalTerm + 1
    /\ aliveDbs' = SortDesc(AliveSet(alive))
    /\ ci' = 1
    /\ rejected' = {}
    /\ elFrom' = <<term, coordinator, AllIds = {}>>
    /\ lastSync' = <<>>
    /\ pc' = "el_cand"
    /\ UNCHANGED <<nodeVars, coordinator, storeVars, phase, cdVars, oi, syVars, stale, syReq>>
    /\ pc2 \in Yield /\ UNCHANGED <<registry, tickFrom, reqVars, tick2Vars>>

\* line 198-201
el_begin ==
    /\ pc = "el_begin"
    /\ globalTerm' = globalTerm + 1
    /\ aliveDbs' = SortDesc(AliveSet(alive))
    /\ ci' = 1
    /\ rejected' = {}
    /\ elFrom' = <<term, coordinator, AllIds = {}>>
    /\ lastSync' = <<>>
    /\ pc' = "el_cand"
    /\ UNCHANGED <<nodeVars, coordinator, storeVars, phase, cdVars, oi, syVars, stale, syReq>>
    /\ pc2 \in Yield /\ UNCHANGED <<registry, tickFrom, reqVars, tick2Vars>>

\* line 225-226: no candidate was eligible
ElectNone ==
    /\ coordinator' = null
    /\ pc' = "tick_end"
    /\ UNCHANGED <<role, term, rejected, elFrom, syTarget, sySource, syRet, ci>>

\* line 187-192: the candidate is behind; synchronize it from the tracked
\* coordinator if there is one, and reject it for this pass
ElectReject ==
    /\ rejected' = rejected \cup {cand}
    /\ IF coordinator /= null
       THEN /\ syTarget' = cand
            /\ sySource' = coordinator
            /\ syRet' = "cand"
            /\ pc' = "sy_call"
            /\ UNCHANGED ci
       ELSE /\ ci' = ci + 1
            /\ pc' = "el_cand"
            /\ UNCHANGED <<syTarget, sySource, syRet>>
    /\ UNCHANGED <<coordinator, role, term, elFrom>>

\* line 205-207: the candidate wins
ElectWin ==
    /\ coordinator' = cand
    /\ role' = [role EXCEPT ![cand] = "master"]
    /\ term' = [term EXCEPT ![cand] = globalTerm]
    /\ pc' = "el_win_persist"
    /\ UNCHANGED <<rejected, elFrom, syTarget, sySource, syRet, ci>>

\* variant: when every candidate was rejected the first alive node is taken
el_cand_FallbackFirst ==
    /\ pc = "el_cand"
    /\ IF ci > Len(aliveDbs)
       THEN IF aliveDbs = <<>> THEN ElectNone
            ELSE /\ coordinator' = aliveDbs[1]
                 /\ role' = [role EXCEPT ![aliveDbs[1]] = "master"]
                 /\ term' = [term EXCEPT ![aliveDbs[1]] = globalTerm]
                 /\ ci' = 1
                 /\ pc' = "el_win_persist"
                 /\ UNCHANGED <<rejected, elFrom, syTarget, sySource, syRet>>
       ELSE IF TermTooLow(cand, alive, term) THEN ElectReject
       ELSE ElectWin
    /\ UNCHANGED <<alive, connection, models, globalTerm, storeVars, phase, cdVars,
                   aliveDbs, oi, masterData, syOld, syOldTerm, histVars>>
    /\ pc2 \in Yield /\ UNCHANGED <<registry, tickFrom, reqVars, tick2Vars>>

\* line 202-204 with canBecomeMaster (184-195)
el_cand ==
    /\ pc = "el_cand"
    /\ IF ci > Len(aliveDbs) THEN ElectNone
       ELSE IF TermTooLow(cand, alive, term) THEN ElectReject
       ELSE ElectWin
    /\ UNCHANGED <<alive, connection, models, globalTerm, storeVars, phase, cdVars,
                   aliveDbs, oi, masterData, syOld, syOldTerm, histVars>>
    /\ pc2 \in Yield /\ UNCHANGED <<registry, tickFrom, reqVars, tick2Vars>>

\* line 208: persist the winner's term
el_win_persist ==
    /\ pc = "el_win_persist"
    /\ \E ok \in BOOLEAN :
       IF ok
       THEN /\ meta' = [meta EXCEPT ![cand] = upsertTerm(@, globalTerm)]
            /\ oi' = 1
            /\ pc' = "el_other"
       ELSE /\ pc' = "threw"
            /\ UNCHANGED <<meta, oi>>
    /\ UNCHANGED <<nodeVars, coordinator, globalTerm, docs, clock, phase, cdVars,
                   aliveDbs, ci, rejected, elFrom, syVars, histVars>>
    /\ pc2 \in Yield /\ UNCHANGED <<registry, tickFrom, reqVars, tick2Vars>>

\* variant: the other alive nodes keep their role
el_other_NoDemote ==
    /\ pc = "el_other"
    /\ IF oi > Len(aliveDbs)
       THEN /\ pc' = "el_return"
            /\ UNCHANGED <<role, term, oi>>
       ELSE IF other = cand
       THEN /\ oi' = oi + 1
            /\ pc' = "el_other"
            /\ UNCHANGED <<role, term>>
       ELSE /\ term' = [term EXCEPT ![other] = globalTerm]
            /\ pc' = "el_other_persist"
            /\ UNCHANGED <<role, oi>>
    /\ UNCHANGED <<alive, connection, models, coordinator, globalTerm, storeVars, phase,
                   cdVars, aliveDbs, ci, rejected, elFrom, syVars, histVars>>
    /\ pc2 \in Yield /\ UNCHANGED <<registry, tickFrom, reqVars, tick2Vars>>

\* line 211-214 and 220
el_other ==
    /\ pc = "el_other"
    /\ IF oi > Len(aliveDbs)
       THEN /\ pc' = "el_return"
            /\ UNCHANGED <<role, term, oi>>
       ELSE IF other = cand
       THEN /\ oi' = oi + 1
            /\ pc' = "el_other"
            /\ UNCHANGED <<role, term>>
       ELSE /\ role' = [role EXCEPT ![other] = "slave"]
            /\ term' = [term EXCEPT ![other] = globalTerm]
            /\ pc' = "el_other_persist"
            /\ UNCHANGED oi
    /\ UNCHANGED <<alive, connection, models, coordinator, globalTerm, storeVars, phase,
                   cdVars, aliveDbs, ci, rejected, elFrom, syVars, histVars>>
    /\ pc2 \in Yield /\ UNCHANGED <<registry, tickFrom, reqVars, tick2Vars>>

\* line 215-217: persist the demoted node's term, call syncDataFromMaster(other, db)
el_other_persist ==
    /\ pc = "el_other_persist"
    /\ \E ok \in BOOLEAN :
       IF ok
       THEN /\ meta' = [meta EXCEPT ![other] = upsertTerm(@, globalTerm)]
            /\ syTarget' = other
            /\ sySource' = cand
            /\ syRet' = "other"
            /\ pc' = "sy_call"
       ELSE /\ pc' = "threw"
            /\ UNCHANGED <<meta, syTarget, sySource, syRet>>
    /\ UNCHANGED <<nodeVars, coordinator, globalTerm, docs, clock, phase, cdVars,
                   elVars, masterData, syOld, syOldTerm, histVars>>
    /\ pc2 \in Yield /\ UNCHANGED <<registry, tickFrom, reqVars, tick2Vars>>

\* ------------------------------------------------------- end of the tick
ClearLocals ==
    /\ cdMaster' = null
    /\ idx' = 0
    /\ aliveDbs' = <<>>
    /\ ci' = 0
    /\ oi' = 0
    /\ rejected' = {}
    /\ elFrom' = <<>>
    /\ tickFrom' = <<>>

\* line 220: electCoordinator returned with a winner
el_return ==
    /\ pc = "el_return"
    /\ pc' = "tick_end"
    /\ UNCHANGED <<nodeVars, coordinator, globalTerm, storeVars, phase,
                   cdVars, elVars, syVars, histVars>>
    /\ pc2 \in Yield /\ UNCHANGED <<registry, tickFrom, reqVars, tick2Vars>>

\* the tick (or the first run of monitor, which then installs the interval) is over
tick_end ==
    /\ pc = "tick_end"
    /\ pc' = "idle"
    /\ phase' = "interval"
    /\ ClearLocals
    /\ UNCHANGED <<nodeVars, coordinator, globalTerm, storeVars, syVars, histVars>>
    /\ pc2 \in Yield /\ UNCHANGED <<registry, reqVars, tick2Vars>>

\* an error nobody caught: it rejects the promise of the interval callback,
\* or the promise of monitor() before line 234 has installed the interval
threw ==
    /\ pc = "threw"
    /\ pc' = IF phase = "boot" THEN "halted" ELSE "idle"
    /\ ClearLocals
    /\ UNCHANGED <<nodeVars, coordinator, globalTerm, storeVars, phase, syVars, histVars>>
    /\ pc2 \in Yield /\ UNCHANGED <<registry, reqVars, tick2Vars>>

\* ------------------------------------------- a second body of the tick
\* setInterval (line 234) calls the callback every 15 s whether or not the
\* promise of the previous call has settled, so a second body can start while
\* the first one waits at an await.  Its code is the code of the first, run
\* on locals of its own; the two take turns at their awaits.
\* a callback starts while the body of another is in progress
TickStart2 ==
    /\ pc \in Yield \ {"idle", "halted"}
    /\ pc2 = "idle"
    /\ phase = "interval"
    /\ globalTerm < MaxOverlapTerm
    /\ pc2' = "cd_begin"
    /\ UNCHANGED <<nodeVars, coordinator, globalTerm, storeVars, phase,
                   cdVars2, elVars2, syVars2, histVars>>
    /\ UNCHANGED <<registry, tickFrom, reqVars, tick1Vars>>

db2 == databases[idx2]

\* line 77-78: look the master up by role and choose the pass
cd_begin2 ==
    /\ pc2 = "cd_begin"
    /\ cdMaster2' = FindMaster
    /\ idx2' = 1
    /\ pc2' = IF FindMaster /= null THEN "cd_m_head" ELSE "cd_f_head"
    /\ UNCHANGED <<nodeVars, coordinator, globalTerm, storeVars, phase,
                   elVars2, syVars2, histVars>>
    /\ pc \in Yield /\ UNCHANGED <<registry, tickFrom, reqVars, tick1Vars>>

\* line 79-80, 104: loop head of the pass with a master
cd_m_head2 ==
    /\ pc2 = "cd_m_head"
    /\ pc2' = IF idx2 > Len(databases) THEN "cd_done"
             ELSE IF ~alive[db2] THEN "rj_connect" ELSE "al_connect"
    /\ UNCHANGED <<nodeVars, coordinator, globalTerm, storeVars, phase,
                   cdVars2, elVars2, syVars2, histVars>>
    /\ pc \in Yield /\ UNCHANGED <<registry, tickFrom, reqVars, tick1Vars>>

\* line 98-102: catch of the rejoin pass (role is left as it is)
RejoinCatch2(n) ==
    /\ alive' = [alive EXCEPT ![n] = FALSE]
    /\ connection' = [connection EXCEPT ![n] = FALSE]
    /\ idx2' = idx2 + 1
    /\ pc2' = "cd_m_head"
    /\ UNCHANGED <<role, term, models, cdMaster2>>

\* line 82-88: createConnection, waitForConnection, models[db.id] = ...
rj_connect2 ==
    /\ pc2 = "rj_connect"
    /\ \E ok \in BOOLEAN :
       IF ok
       THEN /\ connection' = [connection EXCEPT ![db2] = TRUE]
            /\ models' = [models EXCEPT ![db2] = TRUE]
            /\ pc2' = "rj_ping"
            /\ UNCHANGED <<alive, role, term, cdVars2>>
       ELSE RejoinCatch2(db2)
    /\ UNCHANGED <<coordinator, globalTerm, storeVars, phase, elVars2, syVars2, histVars>>
    /\ pc \in Yield /\ UNCHANGED <<registry, tickFrom, reqVars, tick1Vars>>

\* line 90-95: findOne, db.alive = true, call syncDataFromMaster(db, master)
rj_ping2 ==
    /\ pc2 = "rj_ping"
    /\ \E ok \in BOOLEAN :
       IF ok
       THEN /\ alive' = [alive EXCEPT ![db2] = TRUE]
            /\ syTarget2' = db2
            /\ sySource2' = cdMaster2
            /\ syRet2' = "rejoin"
            /\ pc2' = "sy_call"
            /\ UNCHANGED <<role, term, connection, models, cdVars2>>
       ELSE /\ RejoinCatch2(db2)
            /\ UNCHANGED <<syTarget2, sySource2, syRet2>>
    /\ UNCHANGED <<coordinator, globalTerm, storeVars, phase, elVars2,
                   masterData2, syOld2, syOldTerm2, histVars>>
    /\ pc \in Yield /\ UNCHANGED <<registry, tickFrom, reqVars, tick1Vars>>

\* line 105-114: reconnect an alive node
al_connect2 ==
    /\ pc2 = "al_connect"
    /\ \E ok \in BOOLEAN :
       IF ok
       THEN /\ connection' = [connection EXCEPT ![db2] = TRUE]
            /\ UNCHANGED <<alive, role>>
       ELSE ConnectCatch(db2)
    /\ idx2' = idx2 + 1
    /\ pc2' = "cd_m_head"
    /\ UNCHANGED <<term, models, cdMaster2, coordinator, globalTerm, storeVars, phase,
                   elVars2, syVars2, histVars>>
    /\ pc \in Yield /\ UNCHANGED <<registry, tickFrom, reqVars, tick1Vars>>

\* line 121: loop head of the full pass
cd_f_head2 ==
    /\ pc2 = "cd_f_head"
    /\ pc2' = IF idx2 > Len(databases) THEN "cd_done" ELSE "f_connect"
    /\ UNCHANGED <<nodeVars, coordinator, globalTerm, storeVars, phase,
                   cdVars2, elVars2, syVars2, histVars>>
    /\ pc \in Yield /\ UNCHANGED <<registry, tickFrom, reqVars, tick1Vars>>

FullCatch2(n) ==
    /\ ConnectCatch(n)
    /\ idx2' = idx2 + 1
    /\ pc2' = "cd_f_head"

\* line 123-129
f_connect2 ==
    /\ pc2 = "f_connect"
    /\ \E ok \in BOOLEAN :
       IF ok
       THEN /\ connection' = [connection EXCEPT ![db2] = TRUE]
            /\ models' = [models EXCEPT ![db2] = TRUE]
            /\ pc2' = "f_ping"
            /\ UNCHANGED <<alive, role, idx2>>
       ELSE /\ FullCatch2(db2)
            /\ UNCHANGED models
    /\ UNCHANGED <<term, cdMaster2, coordinator, globalTerm, storeVars, phase,
                   elVars2, syVars2, histVars>>
    /\ pc \in Yield /\ UNCHANGED <<registry, tickFrom, reqVars, tick1Vars>>

\* line 131-133
f_ping2 ==
    /\ pc2 = "f_ping"
    /\ \E ok \in BOOLEAN :
       IF ok
       THEN /\ alive' = [alive EXCEPT ![db2] = TRUE]
            /\ pc2' = "f_find"
            /\ UNCHANGED <<role, connection, idx2>>
       ELSE FullCatch2(db2)
    /\ UNCHANGED <<term, models, cdMaster2, coordinator, globalTerm, storeVars, phase,
                   elVars2, syVars2, histVars>>
    /\ pc \in Yield /\ UNCHANGED <<registry, tickFrom, reqVars, tick1Vars>>

\* line 135-139: read the term record; db.term = meta.term when it exists
f_find2 ==
    /\ pc2 = "f_find"
    /\ \E ok \in BOOLEAN :
       IF ok
       THEN /\ IF meta[db2] = NoRec
               THEN pc2' = "f_save" /\ UNCHANGED <<term, idx2>>
               ELSE /\ term' = [term EXCEPT ![db2] = meta[db2]]
                    /\ idx2' = idx2 + 1
                    /\ pc2' = "cd_f_head"
            /\ UNCHANGED <<alive, role, connection>>
       ELSE FullCatch2(db2) /\ UNCHANGED term
    /\ UNCHANGED <<models, cdMaster2, coordinator, globalTerm, storeVars, phase,
                   elVars2, syVars2, histVars>>
    /\ pc \in Yield /\ UNCHANGED <<registry, tickFrom, reqVars, tick1Vars>>

\* line 137-139: create the term record with term 0
f_save2 ==
    /\ pc2 = "f_save"
    /\ \E ok \in BOOLEAN :
       IF ok /\ meta[db2] = NoRec
       THEN /\ meta' = [meta EXCEPT ![db2] = 0]
            /\ term' = [term EXCEPT ![db2] = 0]
            /\ idx2' = idx2 + 1
            /\ pc2' = "cd_f_head"
            /\ UNCHANGED <<alive, role, connection>>
       ELSE FullCatch2(db2) /\ UNCHANGED <<term, meta>>
    /\ UNCHANGED <<models, cdMaster2, coordinator, globalTerm, docs, clock, phase,
                   elVars2, syVars2, histVars>>
    /\ pc \in Yield /\ UNCHANGED <<registry, tickFrom, reqVars, tick1Vars>>

\* line 231-232 and 235-241: after connectDBs the first run always elects,
\* a tick elects when there is no coordinator or it is not alive
cd_done2 ==
    /\ pc2 = "cd_done"
    /\ pc2' = IF phase = "boot" \/ coordinator = null \/ ~alive[coordinator]
             THEN "el_begin" ELSE "tick_end"
    /\ UNCHANGED <<nodeVars, coordinator, globalTerm, storeVars, phase,
                   cdVars2, elVars2, syVars2, histVars>>
    /\ pc \in Yield /\ UNCHANGED <<registry, tickFrom, reqVars, tick1Vars>>

ClearSync2 ==
    /\ syTarget2' = null
    /\ sySource2' = null
    /\ syRet2' = "none"
    /\ masterData2' = {}
    /\ syOld2' = {}
    /\ syOldTerm2' = 0

\* the caller's code after the awaited call returns
SyncReturn2 ==
    /\ ClearSync2
    /\ CASE syRet2 = "rejoin" -> \* line 96-97, next database
                /\ idx2' = idx2 + 1
                /\ pc2' = "cd_m_head"
                /\ UNCHANGED <<ci2, oi2>>
         [] syRet2 = "cand" ->   \* line 192: return false, next candidate
                /\ ci2' = ci2 + 1
                /\ pc2' = "el_cand"
                /\ UNCHANGED <<idx2, oi2>>
         [] syRet2 = "other" ->  \* line 217-218, next node to demote
                /\ oi2' = oi2 + 1
                /\ pc2' = "el_other"
                /\ UNCHANGED <<idx2, ci2>>

\* a storage error inside the call: caught by the rejoin pass (line 98-102),
\* not caught by canBecomeMaster and electCoordinator
SyncThrow2 ==
    /\ ClearSync2
    /\ IF syRet2 = "rejoin"
       THEN /\ alive' = [alive EXCEPT ![syTarget2] = FALSE]
            /\ connection' = [connection EXCEPT ![syTarget2] = FALSE]
            /\ idx2' = idx2 + 1
            /\ pc2' = "cd_m_head"
       ELSE /\ pc2' = "threw"
            /\ UNCHANGED <<alive, connection, idx2>>

\* line 160-168: the two early returns
sy_call2 ==
    /\ pc2 = "sy_call"
    /\ IF syTarget2 = sySource2 \/ ~models[syTarget2] \/ ~models[sySource2]
       THEN SyncReturn2
       ELSE /\ pc2' = "sy_read"
            /\ syOldTerm2' = term[syTarget2]
            /\ UNCHANGED <<syTarget2, sySource2, syRet2, masterData2, syOld2, idx2, ci2, oi2>>
    /\ syReq' = "none"
    /\ UNCHANGED <<nodeVars, coordinator, globalTerm, storeVars, phase, cdMaster2,
                   aliveDbs2, rejected2, elFrom2, stale, lastSync>>
    /\ pc \in Yield /\ UNCHANGED <<registry, tickFrom, reqVars, tick1Vars>>

\* line 169: masterData = await models[master.id].Test.find({})
sy_read2 ==
    /\ pc2 = "sy_read"
    /\ \E ok \in BOOLEAN :
       IF ok
       THEN /\ masterData2' = docs[sySource2]
            /\ pc2' = "sy_delete"
            /\ UNCHANGED <<alive, connection, idx2, syTarget2, sySource2, syRet2, syOld2, syOldTerm2>>
       ELSE SyncThrow2
    /\ UNCHANGED <<role, term, models, coordinator, globalTerm, storeVars, phase, cdMaster2,
                   aliveDbs2, ci2, oi2, rejected2, elFrom2, histVars>>
    /\ pc \in Yield /\ UNCHANGED <<registry, tickFrom, reqVars, tick1Vars>>

\* line 171-173 (and 178 when there is nothing to insert)
sy_delete2 ==
    /\ pc2 = "sy_delete"
    /\ \E ok \in BOOLEAN :
       IF ok
       THEN /\ syOld2' = docs[syTarget2]
            /\ docs' = [docs EXCEPT ![syTarget2] = {}]
            /\ IF masterData2 = {}
               THEN /\ term' = [term EXCEPT ![syTarget2] = term[sySource2]]
                    /\ pc2' = "sy_setterm"
               ELSE /\ pc2' = "sy_insert"
                    /\ UNCHANGED term
            /\ UNCHANGED <<alive, connection, idx2, syTarget2, sySource2, syRet2, masterData2, syOldTerm2>>
       ELSE SyncThrow2 /\ UNCHANGED <<docs, term>>
    /\ UNCHANGED <<role, models, coordinator, globalTerm, meta, clock, phase, cdMaster2,
                   aliveDbs2, ci2, oi2, rejected2, elFrom2, histVars>>
    /\ pc \in Yield /\ UNCHANGED <<registry, tickFrom, reqVars, tick1Vars>>

\* line 174-178: insertMany of the copies, then db.term = master.term
sy_insert2 ==
    /\ pc2 = "sy_insert"
    /\ \E ok \in BOOLEAN :
       IF ok
       THEN /\ docs' = [docs EXCEPT ![syTarget2] =
                          @ \cup insertMany(masterData2, syTarget2, syOld2)]
            /\ term' = [term EXCEPT ![syTarget2] = term[sySource2]]
            /\ pc2' = "sy_setterm"
            /\ UNCHANGED <<alive, connection, idx2, syVars2>>
       ELSE SyncThrow2 /\ UNCHANGED <<docs, term>>
    /\ UNCHANGED <<role, models, coordinator, globalTerm, meta, clock, phase, cdMaster2,
                   aliveDbs2, ci2, oi2, rejected2, elFrom2, histVars>>
    /\ pc \in Yield /\ UNCHANGED <<registry, tickFrom, reqVars, tick1Vars>>

\* line 180: Metadata.updateOne({ key: "term" }, { term: db.term })
sy_setterm2 ==
    /\ pc2 = "sy_setterm"
    /\ \E ok \in BOOLEAN :
       IF ok
       THEN /\ meta' = [meta EXCEPT ![syTarget2] = updateOneTerm(@, term[syTarget2])]
            /\ pc2' = "sy_done"
            /\ UNCHANGED <<alive, connection, idx2, syVars2>>
       ELSE SyncThrow2 /\ UNCHANGED meta
    /\ UNCHANGED <<role, term, models, coordinator, globalTerm, docs, clock, phase, cdMaster2,
                   aliveDbs2, ci2, oi2, rejected2, elFrom2, histVars>>
    /\ pc \in Yield /\ UNCHANGED <<registry, tickFrom, reqVars, tick1Vars>>

\* line 181-182: the call has completed; back in the caller
sy_done2 ==
    /\ pc2 = "sy_done"
    /\ SyncReturn2
    /\ stale' = [stale EXCEPT ![syTarget2] = @ /\ syReq = "missed"]
    /\ lastSync' = IF syReq = "none" THEN <<syTarget2, sySource2>> ELSE <<>>
    /\ syReq' = "none"
    /\ UNCHANGED <<nodeVars, coordinator, globalTerm, storeVars, phase, cdMaster2,
                   aliveDbs2, rejected2, elFrom2>>
    /\ pc \in Yield /\ UNCHANGED <<registry, tickFrom, reqVars, tick1Vars>>

cand2 == aliveDbs2[ci2]

other2 == aliveDbs2[oi2]

\* line 198-201
el_begin2 ==
    /\ pc2 = "el_begin"
    /\ globalTerm' = globalTerm + 1
    /\ aliveDbs2' = SortDesc(AliveSet(alive))
    /\ ci2' = 1
    /\ rejected2' = {}
    /\ elFrom2' = <<term, coordinator, AllIds = {}>>
    /\ lastSync' = <<>>
    /\ pc2' = "el_cand"
    /\ UNCHANGED <<nodeVars, coordinator, storeVars, phase, cdVars2, oi2, syVars2, stale, syReq>>
    /\ pc \in Yield /\ UNCHANGED <<registry, tickFrom, reqVars, tick1Vars>>

\* line 225-226: no candidate was eligible
ElectNone2 ==
    /\ coordinator' = null
    /\ pc2' = "tick_end"
    /\ UNCHANGED <<role, term, rejected2, elFrom2, syTarget2, sySource2, syRet2, ci2>>

\* line 187-192: the candidate is behind; synchronize it from the tracked
\* coordinator if there is one, and reject it for this pass
ElectReject2 ==
    /\ rejected2' = rejected2 \cup {cand2}
    /\ IF coordinator /= null
       THEN /\ syTarget2' = cand2
            /\ sySource2' = coordinator
            /\ syRet2' = "cand"
            /\ pc2' = "sy_call"
            /\ UNCHANGED ci2
       ELSE /\ ci2' = ci2 + 1
            /\ pc2' = "el_cand"
            /\ UNCHANGED <<syTarget2, sySource2, syRet2>>
    /\ UNCHANGED <<coordinator, role, term, elFrom2>>

\* line 205-207: the candidate wins
ElectWin2 ==
    /\ coordinator' = cand2
    /\ role' = [role EXCEPT ![cand2] = "master"]
    /\ term' = [term EXCEPT ![cand2] = globalTerm]
    /\ pc2' = "el_win_persist"
    /\ UNCHANGED <<rejected2, elFrom2, syTarget2, sySource2, syRet2, ci2>>

\* line 202-204 with canBecomeMaster (184-195)
el_cand2 ==
    /\ pc2 = "el_cand"
    /\ IF ci2 > Len(aliveDbs2) THEN ElectNone2
       ELSE IF TermTooLow(cand2, alive, term) THEN ElectReject2
       ELSE ElectWin2
    /\ UNCHANGED <<alive, connection, models, globalTerm, storeVars, phase, cdVars2,
                   aliveDbs2, oi2, masterData2, syOld2, syOldTerm2, histVars>>
    /\ pc \in Yield /\ UNCHANGED <<registry, tickFrom, reqVars, tick1Vars>>

\* line 208: persist the winner's term
el_win_persist2 ==
    /\ pc2 = "el_win_persist"
    /\ \E ok \in BOOLEAN :
       IF ok
       THEN /\ meta' = [meta EXCEPT ![cand2] = upsertTerm(@, globalTerm)]
            /\ oi2' = 1
            /\ pc2' = "el_other"
       ELSE /\ pc2' = "threw"
            /\ UNCHANGED <<meta, oi2>>
    /\ UNCHANGED <<nodeVars, coordinator, globalTerm, docs, clock, phase, cdVars2,
                   aliveDbs2, ci2, rejected2, elFrom2, syVars2, histVars>>
    /\ pc \in Yield /\ UNCHANGED <<registry, tickFrom, reqVars, tick1Vars>>

\* line 211-214 and 220
el_other2 ==
    /\ pc2 = "el_other"
    /\ IF oi2 > Len(aliveDbs2)
       THEN /\ pc2' = "el_return"
            /\ UNCHANGED <<role, term, oi2>>
       ELSE IF other2 = cand2
       THEN /\ oi2' = oi2 + 1
            /\ pc2' = "el_other"
            /\ UNCHANGED <<role, term>>
       ELSE /\ role' = [role EXCEPT ![other2] = "slave"]
            /\ term' = [term EXCEPT ![other2] = globalTerm]
            /\ pc2' = "el_other_persist"
            /\ UNCHANGED oi2
    /\ UNCHANGED <<alive, connection, models, coordinator, globalTerm, storeVars, phase,
                   cdVars2, aliveDbs2, ci2, rejected2, elFrom2, syVars2, histVars>>
    /\ pc \in Yield /\ UNCHANGED <<registry, tickFrom, reqVars, tick1Vars>>

\* line 215-217: persist the demoted node's term, call syncDataFromMaster(other, db)
el_other_persist2 ==
    /\ pc2 = "el_other_persist"
    /\ \E ok \in BOOLEAN :
       IF ok
       THEN /\ meta' = [meta EXCEPT ![other2] = upsertTerm(@, globalTerm)]
            /\ syTarget2' = other2
            /\ sySource2' = cand2
            /\ syRet2' = "other"
            /\ pc2' = "sy_call"
       ELSE /\ pc2' = "threw"
            /\ UNCHANGED <<meta, syTarget2, sySource2, syRet2>>
    /\ UNCHANGED <<nodeVars, coordinator, globalTerm, docs, clock, phase, cdVars2,
                   elVars2, masterData2, syOld2, syOldTerm2, histVars>>
    /\ pc \in Yield /\ UNCHANGED <<registry, tickFrom, reqVars, tick1Vars>>

ClearLocals2 ==
    /\ cdMaster2' = null
    /\ idx2' = 0
    /\ aliveDbs2' = <<>>
    /\ ci2' = 0
    /\ oi2' = 0
    /\ rejected2' = {}
    /\ elFrom2' = <<>>

\* line 220: electCoordinator returned with a winner
el_return2 ==
    /\ pc2 = "el_return"
    /\ pc2' = "tick_end"
    /\ UNCHANGED <<nodeVars, coordinator, globalTerm, storeVars, phase,
                   cdVars2, elVars2, syVars2, histVars>>
    /\ pc \in Yield /\ UNCHANGED <<registry, tickFrom, reqVars, tick1Vars>>

\* the tick (or the first run of monitor, which then installs the interval) is over
tick_end2 ==
    /\ pc2 = "tick_end"
    /\ pc2' = "idle"
    /\ phase' = "interval"
    /\ ClearLocals2
    /\ UNCHANGED <<nodeVars, coordinator, globalTerm, storeVars, syVars2, histVars>>
    /\ pc \in Yield /\ UNCHANGED <<registry, tickFrom, reqVars, tick1Vars>>

\* an error nobody caught: it rejects the promise of the interval callback,
\* or the promise of monitor() before line 234 has installed the interval
threw2 ==
    /\ pc2 = "threw"
    /\ pc2' = IF phase = "boot" THEN "halted" ELSE "idle"
    /\ ClearLocals2
    /\ UNCHANGED <<nodeVars, coordinator, globalTerm, storeVars, phase, syVars2, histVars>>
    /\ pc \in Yield /\ UNCHANGED <<registry, tickFrom, reqVars, tick1Vars>>

\* ------------------------------------------------------------------ Next
Loop ==
    \/ TickStart \/ cd_begin \/ cd_m_head \/ rj_connect \/ rj_ping \/ al_connect
    \/ cd_f_head \/ f_connect \/ f_ping \/ f_find \/ f_save \/ cd_done
    \/ sy_call \/ sy_read \/ sy_delete \/ sy_insert \/ sy_setterm \/ sy_done
    \/ el_begin \/ el_cand \/ el_win_persist \/ el_other \/ el_other_persist
    \/ el_return \/ tick_end \/ threw

Next ==
    \/ Loop
    \/ \E d \in Data, F \in SUBSET Nodes : Write(d, F)
    \/ \E id \in AllIds, d \in Data, F \in SUBSET Nodes : Update(id, d, F)

Spec == Init /\ [][Next]_vars

\* the loop with the handlers interleaved await by await
NextReq ==
    \/ Loop
    \/ \E d \in WriteBodies : ReqWrite(d)
    \/ w_save
    \/ w_prop
    \/ \E id \in AllIds \cup {NoId}, d \in UpdateBodies : ReqUpdate(id, d)
    \/ u_find
    \/ u_prop
    \/ \E n \in Nodes \cup {null} : ReqRead(n)
    \/ r_find
    \/ ReqStatus
    \/ ReqDone

\* the loop with a second body of the tick, without requests
Loop2 ==
    \/ TickStart2 \/ cd_begin2 \/ cd_m_head2 \/ rj_connect2 \/ rj_ping2 \/ al_connect2
    \/ cd_f_head2 \/ f_connect2 \/ f_ping2 \/ f_find2 \/ f_save2 \/ cd_done2
    \/ sy_call2 \/ sy_read2 \/ sy_delete2 \/ sy_insert2 \/ sy_setterm2 \/ sy_done2
    \/ el_begin2 \/ el_cand2 \/ el_win_persist2 \/ el_other2 \/ el_other_persist2
    \/ el_return2 \/ tick_end2 \/ threw2

NextTicks == Loop \/ Loop2

\* the stores hold no term record; the store of node 2 holds one record,
\* written by an earlier run while node 1 was down
InitTicks ==
    /\ registry = TwoNodes
    /\ Boot
    /\ meta = [n \in Nodes |-> NoRec]
    /\ docs = [n \in Nodes |-> IF n = Max(Nodes)
                                THEN {[id |-> WriteId(1), data |-> "a", createdAt |-> 1]}
                                ELSE {}]
    /\ clock = 1

SpecTicks == InitTicks /\ [][NextTicks]_vars

\* the stores start empty, without a term record
InitReq ==
    /\ registry = TwoNodes
    /\ Boot
    /\ meta = [n \in Nodes |-> NoRec]
    /\ docs = [n \in Nodes |-> {}]
    /\ clock = 0

SpecReq == InitReq /\ [][NextReq]_vars

\* the loop on a registry of three databases, without requests; the store of
\* node 1 holds the term record of an earlier run, the others hold that
\* record or none; the stores of node 3 and node 1 hold one record each,
\* written by earlier runs
Init3 ==
    /\ registry = ThreeNodes
    /\ Boot
    /\ meta \in {m \in [Nodes -> {NoRec, 1}] : m[1] = 1}
    /\ docs = [n \in Nodes |->
                 IF n = 3 THEN {[id |-> WriteId(1), data |-> "a", createdAt |-> 1]}
                 ELSE IF n = 1 THEN {[id |-> WriteId(2), data |-> "b", createdAt |-> 2]}
                 ELSE {}]
    /\ clock = 2

Spec3 == Init3 /\ [][Loop]_vars

\* the loop and the write handler on a registry of three databases; the
\* stores hold no record
Init3W ==
    /\ registry = ThreeNodes
    /\ Boot
    /\ meta \in {m \in [Nodes -> {NoRec, 1}] : m[1] = 1}
    /\ docs = [n \in Nodes |-> {}]
    /\ clock = 0

Next3W ==
    \/ Loop
    \/ \E F \in SUBSET Nodes : Write("a", F)

Spec3W == Init3W /\ [][Next3W]_vars

\* the loop under the scheduling of the event loop: a pending storage call
\* settles (it returns, throws or times out), a due timer fires and code that
\* can run does run
SpecLive == Init /\ [][Next]_vars /\ WF_vars(Loop)

\* ============================================================ properties
\* No tick is in progress: the loop rests between two ticks, or it never
\* started because the first run of monitor() threw.
Settled == pc \in {"idle", "halted"}

AliveMasters == {n \in Nodes : alive[n] /\ role[n] = "master"}

\* the largest in-memory term among the nodes marked alive (0 when none is)
AliveMaxTerm ==
    IF \E n \in Nodes : alive[n]
    THEN CHOOSE t \in {term[n] : n \in {m \in Nodes : alive[m]}} :
            \A n \in Nodes : alive[n] => term[n] <= t
    ELSE 0

\* the largest in-memory term in the registry, alive or not
RegistryMaxTerm == CHOOSE t \in {term[n] : n \in Nodes} : \A n \in Nodes : term[n] <= t

\* node n is given role = master by this step
Promoted(n) == role[n] /= "master" /\ role'[n] = "master"

C2_StaleRejectGate ==
    [][\A n \in Nodes : Promoted(n) => (term[n] >= AliveMaxTerm /\ n \notin rejected)]_vars

\* C2 witness: a pass in which a candidate was rejected as stale and a later
\* candidate has just been made master.
C2_Witness == pc = "el_win_persist" /\ rejected /= {} /\ role[cand] = "master"

\* the coordinator reference is set to node n by this step
Selected(n) == coordinator /= n /\ coordinator' = n

\* C3: a node whose in-memory term is below the highest term of the whole
\* registry, alive or not, is never selected as coordinator.
C3_NoWinnerBelowRegistryMax ==
    [][\A n \in Nodes : Selected(n) => term[n] >= RegistryMaxTerm]_vars

\* C4: a node that was not alive while a write or an update was acknowledged
\* is not the coordinator before a synchronize onto it has completed.
C4_NoStaleCoordinator == coordinator /= null => ~stale[coordinator]

\* the largest term recorded anywhere, in memory or in a term record
RecordedMaxTerm ==
    CHOOSE t \in {term[n] : n \in Nodes} \cup {meta[n] : n \in Nodes} :
        \A n \in Nodes : term[n] <= t /\ meta[n] <= t

\* C5: the term given to the winner of an election is strictly greater than
\* every term recorded before, in memory or in a term record.
C5_WinnerTermExceedsRecorded ==
    [][\A n \in Nodes : Selected(n) => term'[n] > RecordedMaxTerm]_vars

\* C6: the term record of a node never decreases.
C6_TermRecordMonotone ==
    [][\A n \in Nodes : meta'[n] >= meta[n]]_vars

\* C7: when electCoordinator returns with a winner, every alive node has the
\* coordinator's term in memory and the winner's term in its term record.
C7_TermsAgreeAfterElection ==
    pc = "el_return" =>
        \A n \in Nodes : alive[n] => (term[n] = term[coordinator] /\ meta[n] = term[cand])

\* C7 witness: an election of a later tick returned a winner with another
\* node alive.
C7_Witness ==
    /\ pc = "el_return" /\ phase = "interval" /\ coordinator = cand
    /\ \E n \in Nodes : n /= cand /\ alive[n]

\* C8: the coordinator reference is null or refers to a node with
\* alive = true and role = master (stated here for the instants between
\* ticks only, where a refresh in progress cannot be the cause).
C8_CoordinatorAliveMaster ==
    (Settled /\ coordinator /= null) =>
        (alive[coordinator] /\ role[coordinator] = "master")

\* C9: when a synchronize completes and no request touched the stores while
\* it ran, the target's record set equals the source's record set as read,
\* record for record: same _id, payload and creation timestamp.
C9_SyncCopiesRecords ==
    (pc = "sy_done" /\ syReq = "none") => docs[syTarget] = masterData

\* C10: a synchronize that directly follows a synchronize of the same target
\* from the same source, with no write, update or election in between,
\* leaves the target's record set and term as the first one left them.
C10_SyncIdempotent ==
    (pc = "sy_done" /\ lastSync = <<syTarget, sySource>>) =>
        (docs[syTarget] = syOld /\ term[syTarget] = syOldTerm)

\* a synchronize onto n completes by this step: its last await (line 180)
\* succeeded
SyncCompletes(n) == pc = "sy_setterm" /\ pc' = "sy_done" /\ syTarget = n

\* the term of replica n, in memory or persisted, is changed by this step to
\* the term the coordinator carries after the step
TermAdvanced(n) ==
    /\ coordinator' /= null /\ n /= coordinator'
    /\ \/ (term'[n] /= term[n] /\ term'[n] = term'[coordinator'])
       \/ (meta'[n] /= meta[n] /\ meta'[n] = term'[coordinator'])

\* C11: the term of a replica, in memory or persisted, is advanced to the
\* coordinator's term only by the last step of a synchronize onto it that
\* succeeded.
C11_TermAdvancedOnlyBySync ==
    [][\A n \in Nodes : TermAdvanced(n) => SyncCompletes(n)]_vars

\* a storage error ends the running synchronize by this step
SyncFails ==
    /\ pc \in {"sy_read", "sy_delete", "sy_insert", "sy_setterm"}
    /\ pc' \in {"threw", "cd_m_head"}

\* C12: a storage error in the middle of a synchronize, whoever called it,
\* leaves the target with alive = false.
C12_SyncFailureMarksDead ==
    [][SyncFails => ~alive'[syTarget]]_vars

\* the running election started with both nodes alive, terms {0, 0}, no
\* coordinator and empty record sets
FromScratch ==
    /\ Len(aliveDbs) = Cardinality(Nodes)
    /\ elFrom = <<[n \in Nodes |-> 0], null, TRUE>>

\* the outcome of scenario A: the higher-id node is master with term 1, every
\* other node is a slave with term 1 in memory and in its term record and
\* holds no record
ScenarioA ==
    /\ coordinator = Max(Nodes)
    /\ role[coordinator] = "master" /\ term[coordinator] = 1
    /\ \A n \in Nodes \ {coordinator} :
          role[n] = "slave" /\ term[n] = 1 /\ meta[n] = 1 /\ docs[n] = {}

RejoinSynced ==
    /\ pc = "sy_done" /\ syRet = "rejoin" /\ syReq = "none"
    /\ sySource = coordinator /\ alive[sySource]
    /\ syOldTerm < term[sySource]

\* C17: when the health refresh has resynchronized a rejoining replica from
\* the alive coordinator, the replica is alive, its term in memory and in
\* its term record equals the coordinator's term and its records are the
\* coordinator's records.
C17_RejoinCatchesUp ==
    RejoinSynced =>
        /\ alive[syTarget]
        /\ term[syTarget] = term[sySource]
        /\ meta[syTarget] = term[sySource]
        /\ Content(docs[syTarget]) = Content(docs[sySource])

\* the body of a tick has ended, by a return or by an uncaught error
TickOver == pc \in {"tick_end", "threw"}

\* the health refresh of the tick has found the tracked coordinator not alive
CoordinatorFoundDead == pc = "cd_done" /\ coordinator /= null /\ ~alive[coordinator]

\* C18: a tick whose refresh finds the tracked coordinator not alive runs
\* electCoordinator; no election selects a node that is not alive; and a tick
\* that ends with some node alive ends with an alive coordinator that has
\* role = master.
C18_DeadCoordinatorReplaced ==
    /\ [][CoordinatorFoundDead => pc' = "el_begin"]_vars
    /\ [][\A n \in Nodes : Selected(n) => alive[n]]_vars
    /\ []((TickOver /\ \E n \in Nodes : alive[n]) =>
            (coordinator /= null /\ alive[coordinator] /\ role[coordinator] = "master"))

\* C18 witness: a tick ends whose election started with the tracked
\* coordinator not alive and made the other node coordinator.
C18_Witness ==
    /\ pc = "tick_end" /\ elFrom /= <<>>
    /\ elFrom[2] /= null /\ ~alive[elFrom[2]]
    /\ coordinator /= null /\ coordinator /= elFrom[2]
    /\ alive[coordinator] /\ role[coordinator] = "master"

\* C19: once no tick and no request is in progress, every alive replica
\* holds the coordinator's records, none missing and none twice (records
\* compared by payload and creation timestamp).
C19_ReplicasConverge ==
    (Settled /\ coordinator /= null /\ alive[coordinator]) =>
        \A n \in Nodes \ {coordinator} :
            alive[n] => /\ Content(docs[n]) = Content(docs[coordinator])
                        /\ Cardinality(docs[n]) = Cardinality(docs[coordinator])

\* ------------------------------------------------ properties of requests
\* a request enters its handler by this step
RequestArrives == hpc = "none" /\ hpc' /= "none"

\* C14: a write or update that carries data and arrives while coordinator
\* is null or coordinator.alive is false is answered with the NoCoordinator
\* error, and no record set, term record, term, role or alive flag changes.
C14_NoCoordinatorRefused ==
    [][(RequestArrives /\ hDoc'.data /= "" /\ (coordinator = null \/ ~alive[coordinator]))
        => (/\ hpc' = "responded"
            /\ resp' = Failure(500, "NoCoordinator")
            /\ UNCHANGED <<docs, meta, term, role, alive>>)]_vars

\* C14 witness: a request was refused while the reference pointed to a node
\* that is not alive.
C14_Witness ==
    /\ hpc = "responded" /\ resp = Failure(500, "NoCoordinator")
    /\ coordinator /= null /\ ~alive[coordinator]

\* the lookup of an update on the coordinator's store ends by this step
LookupEnds == hpc = "u_find" /\ hpc' /= "u_find"

\* C15: an update whose id is not on the coordinator, when the lookup on the
\* coordinator's store returns, is answered with NotFound; whether it returns
\* or throws, the update is not answered with success and no record and no
\* alive flag changes.
C15_UpdateNotFound ==
    [][(LookupEnds /\ hDoc.id \notin Ids(docs[hMaster]))
        => (/\ hpc' = "responded"
            /\ resp' \in {Failure(404, "NotFound"), Failure(500, "Storage")}
            /\ UNCHANGED <<docs, alive>>)]_vars

\* C15 witness: NotFound was answered for an id that a replica holds and the
\* coordinator does not.
C15_Witness ==
    /\ hpc = "responded" /\ resp = Failure(404, "NotFound")
    /\ hDoc.id \in AllIds

\* node n holds the record of the request with the payload of the request
Holds(n) == \E e \in docs[n] : e.id = hDoc.id /\ e.data = hDoc.data

\* a request has been answered after it was committed on the coordinator
\* and its propagate to some replica failed
AnsweredAfterFailure == hpc = "responded" /\ hMaster \in hOk /\ hFailed /= {}

\* the answer is success, the replicas that failed are not alive, the
\* coordinator holds the record and, for a write, so does every replica
\* whose propagate succeeded
FailureTolerated ==
    /\ resp.code \in {200, 201}
    /\ \A s \in hFailed : ~alive[s]
    /\ Holds(hMaster)
    /\ hDoc.createdAt > 0 => \A s \in hOk : Holds(s)

\* C13: at the moment a request that was committed on the coordinator, and
\* whose propagate to some replica failed, is answered: the answer is
\* success, the failed replicas are marked not alive, the record is still
\* committed on the coordinator and on the replicas that received it.
C13_PropagateFailureTolerated ==
    [][(hpc /= "responded" /\ AnsweredAfterFailure') => FailureTolerated']_vars

\* ---------------------------------------------------- properties of ticks
\* the bodies of the tick that are in progress
BodiesInProgress ==
    (IF pc \in {"idle", "halted"} THEN 0 ELSE 1) + (IF pc2 = "idle" THEN 0 ELSE 1)

\* C20: at most one body of the tick (health refresh plus election check) is
\* in progress at any time.
C20_TicksDoNotOverlap == BodiesInProgress <= 1

\* a step of a request handler (write, update, read or status)
RequestStep == reqVars' /= reqVars

\* C21: no step of a request handler changes the alive, role or term field
\* of a node descriptor.
C21_RequestsLeaveDescriptors ==
    [][RequestStep => UNCHANGED <<alive, role, term>>]_vars

\* C21 amended: no step of a request handler changes a role or a term; the
\* only alive field a handler changes is that of the replica whose propagate
\* of a write or update has just failed, which it sets to false.
C21_Amended ==
    [][RequestStep =>
        /\ UNCHANGED <<role, term>>
        /\ \A n \in Nodes : alive'[n] /= alive[n] =>
              /\ ~alive'[n]
              /\ hpc \in {"w_prop", "u_prop"} /\ n = hSlaves[hi]
              /\ n \in hFailed' \ hFailed]_vars

\* C21 witness: a request was answered after its propagate to a replica
\* failed and the handler marked the replica not alive.
C21_Witness ==
    /\ hpc = "responded" /\ hFailed /= {}
    /\ \A s \in hFailed : ~alive[s]

\* ------------------------------------------------- properties of progress
\* some node is marked alive
SomeAlive == \E n \in Nodes : alive[n]

\* C22: whatever storage calls fail, the loop comes to rest again and again
\* with the interval timer able to start the next tick, and it never rests
\* with a node alive and the coordinator null, not alive or not master.
C22_LoopSurvivesFailures ==
    /\ []<>(pc = "idle")
    /\ []((Settled /\ SomeAlive) =>
            (coordinator /= null /\ alive[coordinator] /\ role[coordinator] = "master"))

\* ------------------------------------------- properties of error handling
\* a read or write of node n's term record throws by this step: the reads of
\* the refresh (line 90, 131, 135), the save of line 137 and the updates of
\* line 180, 208 and 215
TermIoFails(n) ==
    /\ pc' /= pc
    /\ \/ pc \in {"rj_ping", "f_ping", "f_find", "f_save"} /\ n = db /\ ~connection'[n]
       \/ pc = "sy_setterm" /\ n = syTarget /\ pc' /= "sy_done"
       \/ pc = "el_win_persist" /\ n = cand /\ pc' = "threw"
       \/ pc = "el_other_persist" /\ n = other /\ pc' = "threw"

\* C23: a storage error while a node's term is read or written leaves that
\* node with alive = false and role = unknown, and is caught.
C23_TermErrorMarksDead ==
    [][\A n \in Nodes : TermIoFails(n) =>
          (~alive'[n] /\ role'[n] = "unknown" /\ pc' /= "threw")]_vars

\* the running election has selected the candidate at position ci
WinnerChosen == ci \in 1..Len(aliveDbs) /\ coordinator = cand /\ cand \notin rejected

\* the election has ended with a storage error on the replica at position oi
\* of the demotion loop (its term write or its synchronize threw)
ReplicaFailed == pc = "threw" /\ WinnerChosen /\ oi \in 1..Len(aliveDbs)

\* the demotion loop has called synchronize for the node at position j and
\* the call has returned
Resynchronized(j) == j < oi

\* an accepted write is applied by this step
WriteApplied == clock' = clock + 1

ElectionStarts ==
    \/ pc = "el_begin" /\ pc' = "el_cand"
    \/ pc2 = "el_begin" /\ pc2' = "el_cand"

\* C25: a step changes globalTerm if and only if it starts a call of
\* electCoordinator, and then it adds exactly 1, also when no node is alive.
C25_GlobalTermCountsAttempts ==
    /\ [][ElectionStarts => globalTerm' = globalTerm + 1]_vars
    /\ [][globalTerm' /= globalTerm => ElectionStarts]_vars

\* C25 witness: the second attempt of the process has ended without a winner,
\* as the first did.
C25_Witness ==
    /\ pc = "tick_end" /\ elFrom /= <<>> /\ elFrom[2] = null
    /\ coordinator = null /\ aliveDbs = <<>> /\ globalTerm = 2

\* ------------------------------------------------------ properties of a tick
\* the tick decides by this step whether it elects (line 236)
TickDecides == pc = "cd_done" /\ pc' /= pc /\ phase = "interval"

\* a tick that ran no election is over
QuietTickEnds == pc = "tick_end" /\ tickFrom /= <<>> /\ elFrom = <<>>

\* a step of the health refresh, the synchronize of a rejoining node included
RefreshStep ==
    /\ pc' /= pc
    /\ \/ pc \in {"cd_begin", "cd_m_head", "rj_connect", "rj_ping", "al_connect",
                  "cd_f_head", "f_connect", "f_ping", "f_find", "f_save"}
       \/ syRet = "rejoin"

\* the tick elects if and only if the refresh left no alive coordinator, and
\* the refresh changes the records of no node but the one it resynchronizes
\* after finding it not alive
ElectsIffNoCoordinator ==
    /\ [][TickDecides =>
            (pc' = "el_begin" <=> (coordinator = null \/ ~alive[coordinator]))]_vars
    /\ [][RefreshStep =>
            \A n \in Nodes : docs'[n] /= docs[n] =>
                (n = syTarget /\ n = db /\ n /= coordinator)]_vars

Wins == pc = "el_cand" /\ pc' = "el_win_persist"

\* no candidate of the running pass has been synchronized: none was rejected,
\* or there was no coordinator to synchronize from
NoScanSync == rejected = {} \/ elFrom[2] = null

\* the nodes marked alive whose term is the highest term of the alive nodes
TopAlive == {n \in Nodes : alive[n] /\ term[n] = AliveMaxTerm}

\* C27: the candidates of a pass are exactly the nodes alive when it starts,
\* in strictly descending id order; the winner passes the term check and every
\* candidate before it in that order was rejected; and when no candidate was
\* synchronized during the scan the winner is the highest id among the alive
\* nodes that carry the highest alive term.
C27_CandidateOrder ==
    /\ [][ElectionStarts =>
            /\ {aliveDbs'[i] : i \in 1..Len(aliveDbs')} = {n \in Nodes : alive[n]}
            /\ \A i, j \in 1..Len(aliveDbs') : i < j => aliveDbs'[i] > aliveDbs'[j]]_vars
    /\ [][Wins =>
            /\ coordinator' = cand /\ term[cand] >= AliveMaxTerm
            /\ \A j \in 1..(ci - 1) : aliveDbs[j] \in rejected
            /\ NoScanSync => cand = Max(TopAlive)]_vars

\* C27 witness: with three candidates, the one with the highest id was
\* rejected without a synchronize and a later candidate has just won.
C27_Witness ==
    /\ pc = "el_win_persist" /\ Len(aliveDbs) = 3 /\ ci > 1
    /\ elFrom[2] = null /\ aliveDbs[1] \in rejected /\ coordinator = cand

\* the synchronize called for a rejected candidate has completed and
\* canBecomeMaster returns by this step (line 191-192)
RejectedSyncDone == pc = "sy_done" /\ syRet = "cand" /\ pc' /= pc

\* the candidate at position ci is put to the term check by this step
Considered == pc = "el_cand" /\ ci <= Len(aliveDbs) /\ pc' /= pc

\* C28: no candidate rejected in the running pass is selected in it; when the
\* synchronize of a rejected candidate has completed, the candidate carries
\* the source's term, stays rejected and the pass goes on to the next
\* candidate; and every candidate is tested against the highest term the
\* alive nodes carry at that moment.
C28_RejectedForWholePass ==
    /\ [][\A n \in rejected : coordinator' /= n \/ coordinator = n]_vars
    /\ [][RejectedSyncDone =>
            /\ term[syTarget] = term[sySource]
            /\ syTarget \in rejected'
            /\ pc' = "el_cand" /\ ci' = ci + 1 /\ aliveDbs' = aliveDbs]_vars
    /\ [][Considered => (Wins <=> term[cand] >= AliveMaxTerm)]_vars

\* C28 witness: a candidate was rejected and synchronized up to the highest
\* alive term, and the next candidate, which carried the highest alive term
\* when the pass started, has been rejected against the updated terms.
C28_Witness ==
    /\ pc = "sy_call" /\ syRet = "cand" /\ ci = 2
    /\ aliveDbs[1] \in rejected /\ cand \in rejected
    /\ term[aliveDbs[1]] = AliveMaxTerm /\ term[aliveDbs[1]] > elFrom[1][aliveDbs[1]]
    /\ \A n \in Nodes : alive[n] => elFrom[1][n] <= elFrom[1][cand]

\* the scan of electCoordinator has run out of candidates (line 225) by
\* this step
FindsNone == pc = "el_cand" /\ ci > Len(aliveDbs) /\ pc' /= pc

\* a tick that started without a coordinator is over by this step
NullTickEnds ==
    /\ pc \in {"tick_end", "threw"} /\ pc' = "idle"
    /\ tickFrom /= <<>> /\ tickFrom[1] = null

\* C29: a pass of electCoordinator that finds no eligible candidate ends with
\* coordinator = null, every alive node of the pass having been rejected, and
\* a node that has role master then had it before the pass; a node is given
\* role master only by the step that selects it; and a tick that starts with
\* coordinator = null runs electCoordinator before it is over.
C29_NoCandidateLeavesNull ==
    /\ [][FindsNone =>
            /\ coordinator' = null /\ pc' = "tick_end"
            /\ \A i \in 1..Len(aliveDbs) : aliveDbs[i] \in rejected
            /\ \A n \in Nodes : role'[n] = "master" =>
                   (tickFrom /= <<>> /\ tickFrom[3][n] = "master")]_vars
    /\ [][\A n \in Nodes : (role'[n] = "master" /\ role[n] /= "master") =>
                               (Wins /\ cand = n)]_vars
    /\ [][(TickDecides /\ coordinator = null) => pc' = "el_begin"]_vars
    /\ [][NullTickEnds => elFrom /= <<>>]_vars

\* C29 witness: two passes have run, the last one ended without a winner and
\* left coordinator = null, and the tick after it has started the next call
\* of electCoordinator, this time with candidates.
C29_Witness ==
    /\ pc = "el_cand" /\ ci = 1 /\ aliveDbs /= <<>> /\ elFrom /= <<>>
    /\ tickFrom /= <<>> /\ tickFrom[1] = null /\ tickFrom[2] = 2

\* the nodes that were alive when the running election started, the winner
\* excepted
Demoted == {aliveDbs[i] : i \in 1..Len(aliveDbs)} \ {cand}

\* C30: when electCoordinator returns with a winner, every other node that
\* was alive when the election started and still is has role slave and holds
\* the winner's records (compared by payload and creation timestamp),
\* whatever its term was before.
C30_ElectionResyncsAll ==
    (pc = "el_return") =>
        \A n \in Demoted : alive[n] => /\ role[n] = "slave"
                                       /\ Content(docs[n]) = Content(docs[cand])

\* ------------------------------------------- properties of the health refresh
\* the connection or the lightweight read of node n fails by this step of
\* the refresh: rejoin pass (line 82-90), alive-node pass (line 106-107),
\* full pass (line 123-131)
RefreshFails(n) ==
    /\ idx \in 1..Len(databases) /\ n = db
    /\ \/ pc \in {"rj_connect", "rj_ping"} /\ pc' = "cd_m_head"
       \/ pc = "al_connect" /\ ~connection'[n]
       \/ pc \in {"f_connect", "f_ping"} /\ pc' = "cd_f_head"

\* C31: in each of the three passes of the refresh a node whose connection
\* or lightweight read fails is left with alive = false, no cached
\* connection and role = unknown.
C31_RefreshFailureResets ==
    [][\A n \in Nodes : RefreshFails(n) =>
          (~alive'[n] /\ ~connection'[n] /\ role'[n] = "unknown")]_vars

\* ---------------------------------------- properties of the synchronize
\* a call of syncDataFromMaster passes its early returns by this step and
\* goes on to copy (line 169)
SyncCopies == pc = "sy_call" /\ pc' = "sy_read"

\* C32: every call of syncDataFromMaster that copies data, whoever makes it,
\* has the current coordinator as its source, alive at the call, and a
\* target other than the source.
C32_SyncSourceIsAliveCoordinator ==
    [][SyncCopies => (/\ sySource = coordinator
                      /\ alive[sySource]
                      /\ syTarget /= sySource)]_vars

\* C33: when a synchronize has completed, the target's term record holds the
\* source's term, which is also the target's in-memory term, whether or not
\* the target's store had a term record before the call.
C33_SyncPersistsTerm ==
    (pc = "sy_done") => /\ meta[syTarget] = term[sySource]
                        /\ meta[syTarget] = term[syTarget]

\* ------------------------------------- properties of the write path
\* a write or update passes the checks and issues its commit by this step
\* (line 256, 309)
CommitIssued == hpc = "none" /\ hpc' \in {"w_save", "u_find"}

\* the commit on the captured master ends by this step
CommitEnds == hpc \in {"w_save", "u_find"} /\ hpc' /= hpc

\* C34: a write or update issues its commit on the node that is coordinator,
\* and alive, at that moment; a handler changes the records of another node
\* only after that commit has succeeded; and when the commit does not
\* succeed (the store throws, or the update finds no document) no record set
\* changes and the request is answered with an error.
C34_MasterFirst ==
    /\ [][CommitIssued => (hMaster' = coordinator /\ alive[coordinator])]_vars
    /\ [][RequestStep =>
            \A n \in Nodes : (docs'[n] /= docs[n] /\ n /= hMaster) => hMaster \in hOk]_vars
    /\ [][CommitEnds =>
            /\ \A n \in Nodes \ {hMaster} : docs'[n] = docs[n]
            /\ (hMaster \notin hOk') =>
                  (docs' = docs /\ hpc' = "responded" /\ resp'.code >= 400)]_vars

\* C34 witness: an update of a record that an earlier write committed on the
\* master and then propagated fails on the master; the request is answered
\* with the storage error while an alive replica still holds the record.
C34_Witness ==
    /\ hpc = "responded" /\ resp = Failure(500, "Storage")
    /\ hDoc.createdAt = 0 /\ hMaster /= null /\ hOk = {}
    /\ \E n \in Nodes \ {hMaster} : alive[n] /\ hDoc.id \in Ids(docs[n])

\* an update is committed on the coordinator by this step and the request
\* returns success (line 309-328)
UpdateApplied ==
    /\ pc' = pc /\ clock' = clock
    /\ coordinator /= null /\ docs'[coordinator] /= docs[coordinator]

\* C35: when an update has returned success, every replica still marked
\* alive holds a record with the updated record's id and its new payload.
C35_UpdateReachesAliveReplicas ==
    [][UpdateApplied =>
         \A m \in docs'[coordinator] \ docs[coordinator] :
            \A n \in Nodes \ {coordinator} :
               alive'[n] => \E e \in docs'[n] : e.id = m.id /\ e.data = m.data]_vars

\* ------------------------------------------- invariants of the registry
\* C36: at every settled instant with a coordinator, every alive node other
\* than the coordinator has role slave.
C36_AliveOthersAreSlaves ==
    (Settled /\ coordinator /= null) =>
        \A n \in Nodes \ {coordinator} : alive[n] => role[n] = "slave"

\* C37: a node has role master if and only if the coordinator reference
\* points to it (stated here for the instants between ticks only, where a
\* refresh or election in progress cannot be the cause), and a status
\* request made at such an instant reports isCoordinator for exactly the
\* nodes it reports as master.
C37_MasterIffCoordinator ==
    Settled =>
       /\ \A n \in Nodes : role[n] = "master" <=> coordinator = n
       /\ \A i \in 1..Len(StatusReport.nodes) :
             StatusReport.nodes[i].isCoordinator <=> StatusReport.nodes[i].role = "master"

\* C38: at every settled instant the in-memory term of each alive node
\* equals the term its term record holds.
C38_TermMatchesRecord ==
    Settled => \A n \in Nodes : alive[n] => meta[n] = term[n]

\* ------------------------------- properties of requests during a tick
\* a write is answered with success by this step (line 272)
WriteSucceeds == hpc /= "responded" /\ hpc' = "responded" /\ resp'.code = 201

\* a propagate to the replica at position hi ends by this step
PropagateEnds == hpc \in {"w_prop", "u_prop"} /\ RequestStep

\* C39: a write answered with success names the node it committed on and
\* that node's term; no propagate addresses the node that is coordinator at
\* that moment; and no handler step sets alive = false on the node that is
\* coordinator at that moment.
C39_WriteDuringCoordinatorChange ==
    /\ [][WriteSucceeds => (resp'.by = hMaster /\ resp'.term = term[hMaster])]_vars
    /\ [][PropagateEnds => hSlaves[hi] /= coordinator]_vars
    /\ [][RequestStep =>
            \A n \in Nodes : (alive[n] /\ ~alive'[n]) => n /= coordinator]_vars

====
